---- MODULE Spec2Model ----
(***************************************************************************)
(* A model of BTManager-v2's chain-interaction layer: the SubstrateClient   *)
(* connection and query facade (core/substrate_client.py), the extrinsic    *)
(* submission protocol, the domain operations built on it (core/transfer.py,*)
(* core/staking.py, core/registration.py) and the stats aggregation of       *)
(* core/stats.py.                                                           *)
(*                                                                         *)
(* The remote node is not program state: every RPC answer is an input of    *)
(* the handler that asks for it, drawn from a small set (an answer, an      *)
(* absent value, a value of the wrong shape, or a raised exception).        *)
(* A handler is one action; the caller is sequential (pc) and hands the     *)
(* result of one call over before it makes the next.                        *)
(***************************************************************************)
EXTENDS Integers, Sequences, FiniteSets, TLC

VARIABLES
    connected,   \* SubstrateClient._connected
    substrate,   \* SubstrateClient.substrate: "none", or the state of the handle held
    pc,          \* the caller: "idle" (may call), "returned" (holds the last result)
    last,        \* the last call: its inputs, what it did, what it gave back
    statsIn,     \* the answers the node and the price feed hold for a stats call
    snapshot,    \* what get_wallet_stats gave back for them
    co,          \* a get_wallet_stats call in progress: its coroutines and results
    build        \* a build_global_neuron_cache call in progress

vars == <<connected, substrate, pc, last, statsIn, snapshot, co, build>>

----------------------------------------------------------------------------
(* Bounds of the model. *)

\* Amounts in RAO range over 0..MaxRao.
MaxRao == 1
\* UIDs range over 0..MaxUid.
MaxUid == 1
\* Subnet ids range over 0..MaxNetuid (0 is the root subnet).
MaxNetuid == 1
\* At most MaxEvents events in a receipt.
MaxEvents == 1

Rao == 0..MaxRao
Uid == 0..MaxUid
Netuids == 0..MaxNetuid
Hotkeys == {"hk1", "hk2"}

----------------------------------------------------------------------------
(* Python's None and optional values; results of a call. *)

None == <<>>
Some(v) == <<v>>
Opt(S) == {None} \cup {Some(v) : v \in S}

\* Python's truth value of an optional integer, and a or b.
Truthy(o) == o # None /\ o[1] # 0
PyOr(a, b) == IF Truthy(a) THEN a ELSE b

Return(v) == [kind |-> "return", exc |-> "", val |-> v]
Raise(exc, msg) == [kind |-> "raise", exc |-> exc, val |-> msg]

\* What str(e) may be for an exception of the RPC library: any string, the
\* empty one included.
ErrMsgs == {"rpc error", ""}

\* An RPC answer: st is "raise" (msg is the exception's text), "none", "dict",
\* "list", "int" or "other" (a value of no expected shape); v is the payload.
Resp(st, v, msg) == [st |-> st, v |-> v, msg |-> msg]
Raises == {Resp("raise", None, m) : m \in ErrMsgs}
NoAnswer == Resp("unasked", None, "")

\* The client object as the methods see it.
Self(c, s) == [connected |-> c, substrate |-> s]

----------------------------------------------------------------------------
(* Floating-point values, as exact real numbers.                            *)
(*                                                                         *)
(* A value is a sum of rational multiples of the units 1, 1/RAO_PER_TAO,    *)
(* 1/I64F64_DIVISOR and 1/(RAO_PER_TAO * I64F64_DIVISOR): a function from   *)
(* the unit <<e9, f32>> to the coefficient <<numerator, denominator>>.      *)
(* With coefficients far below the two constants, two values are equal      *)
(* exactly when their coefficients are. Rounding is not modelled.           *)

Units == (0..1) \X (0..1)

RECURSIVE Gcd(_, _)
Gcd(a, b) == IF b = 0 THEN a ELSE Gcd(b, a % b)
Abs(x) == IF x < 0 THEN -x ELSE x

\* n/d in lowest terms with a positive denominator.
Rat(n, d) ==
    IF n = 0 THEN <<0, 1>>
    ELSE LET g == Gcd(Abs(n), Abs(d))
             sg == IF d < 0 THEN -1 ELSE 1
         IN <<sg * (n \div g), sg * (d \div g)>>
RAdd(a, b) == Rat(a[1] * b[2] + b[1] * a[2], a[2] * b[2])
RMul(a, b) == Rat(a[1] * b[1], a[2] * b[2])

FZero == [u \in Units |-> <<0, 1>>]
\* n/d of the unit u.
Flt(n, d, u) == [FZero EXCEPT ![u] = Rat(n, d)]
FInt(n) == Flt(n, 1, <<0, 0>>)
FAdd_mutant_left(a, b) == a
FAdd(a, b) == [u \in Units |-> RAdd(a[u], b[u])]

RECURSIVE RSum(_, _)
RSum(f, S) ==
    IF S = {} THEN <<0, 1>>
    ELSE LET x == CHOOSE y \in S : TRUE IN RAdd(f[x], RSum(f, S \ {x}))

FMul(a, b) ==
    [u \in Units |->
        LET P == {p \in Units \X Units :
                     p[1][1] + p[2][1] = u[1] /\ p[1][2] + p[2][2] = u[2]}
        IN RSum([p \in P |-> RMul(a[p[1]], b[p[2]])], P)]

\* a / t for an integer t # 0.
FDivInt(a, t) == [u \in Units |-> RMul(a[u], Rat(1, t))]

\* a > 0: the sign of the coefficient of the largest unit present.
FPos(a) ==
    IF a[<<0, 0>>][1] # 0 THEN a[<<0, 0>>][1] > 0
    ELSE IF a[<<1, 0>>][1] # 0 THEN a[<<1, 0>>][1] > 0
    ELSE IF a[<<0, 1>>][1] # 0 THEN a[<<0, 1>>][1] > 0
    ELSE a[<<1, 1>>][1] > 0

\* rao / RAO_PER_TAO
rao_to_tao(rao) == Flt(rao, 1, <<1, 0>>)

\* bits / I64F64_DIVISOR; raw: Some(bits), a dict with bits or a bare number
\* alike, or None for any other shape.
decode_price(raw) == IF raw = None THEN FZero ELSE Flt(raw[1], 1, <<0, 1>>)

----------------------------------------------------------------------------
(* What a call did: its result and the library calls it issued. *)

Eff(out, rpcs, rpcFail) ==
    [out |-> out,          \* Return(value) or Raise(exception, text)
     rpcs |-> rpcs,        \* calls issued on the substrate handle
     rpcFail |-> rpcFail,  \* one of them raised
     composed |-> 0,       \* extrinsic calls composed
     signed |-> 0,         \* extrinsics signed
     submits |-> 0,        \* extrinsics handed to submit_extrinsic
     signer |-> "none",    \* the keypair create_signed_extrinsic was given
     fn |-> "",            \* call_function of the extrinsic
     receipt |-> "none",   \* "none", "success", "failure" or "unreadable"
     burnSeen |-> None,    \* burn_register: what get_burn_cost returned
     balSeen |-> None,     \* burn_register: what get_balance returned
     requeried |-> FALSE,  \* burn_register: the Uids fallback query ran
     eventUid |-> None]    \* burn_register: the UID event parsing yielded

NotConnectedMsg == "Not connected. Call connect() first."

\* _ensure_connected passes.
ensure_connected_mutant_handle_only(self) == self.substrate # "none"
_ensure_connected(self) == self.connected /\ self.substrate # "none"

ConnectionErrorRaised == Eff(Raise("ConnectionError", NotConnectedMsg), 0, FALSE)

\* An exception of the RPC library leaving a method that does not catch it.
Propagated(r, rpcs) == Eff(Raise("Exception", r.msg), rpcs, TRUE)

----------------------------------------------------------------------------
(* The query facade: each method on the answer(s) r of its RPC call(s). *)

\* r: the System.Account answer; a dict carries Some(free) or no "free" entry.
get_balance(self, r) ==
    IF ~_ensure_connected(self) THEN ConnectionErrorRaised
    ELSE IF r.st = "raise" THEN Propagated(r, 1)
    ELSE IF r.st = "none" THEN Eff(Return(0), 1, FALSE)
    ELSE IF r.st = "dict"
         THEN Eff(Return(IF r.v = None THEN 0 ELSE r.v[1]), 1, FALSE)
    ELSE Eff(Return(0), 1, FALSE)

\* A runtime call whose answer is kept when it is a list, [] otherwise.
ListQuery(self, r) ==
    IF ~_ensure_connected(self) THEN ConnectionErrorRaised
    ELSE IF r.st = "raise" THEN Eff(Return(<<>>), 1, TRUE)
    ELSE Eff(Return(IF r.st = "list" THEN r.v ELSE <<>>), 1, FALSE)

\* A runtime call whose answer is kept when it is a dict, None otherwise.
DictQuery(self, r) ==
    IF ~_ensure_connected(self) THEN ConnectionErrorRaised
    ELSE IF r.st = "raise" THEN Eff(Return(None), 1, TRUE)
    ELSE Eff(Return(IF r.st = "dict" THEN Some(r.v) ELSE None), 1, FALSE)

get_stake_info_for_coldkey(self, r) == ListQuery(self, r)
get_all_dynamic_info(self, r) == ListQuery(self, r)
get_neurons_lite(self, r) == ListQuery(self, r)
get_subnet_dynamic_info(self, r) == DictQuery(self, r)
get_subnet_hyperparams(self, r) == DictQuery(self, r)

RECURSIVE SetToSeqAsc(_)
SetToSeqAsc(S) ==
    IF S = {} THEN <<>>
    ELSE LET m == CHOOSE x \in S : \A y \in S : x <= y
         IN <<m>> \o SetToSeqAsc(S \ {m})

\* r: the NetworksAdded map, netuid -> added; the iteration may raise.
get_all_subnet_netuids(self, r) ==
    IF ~_ensure_connected(self) THEN ConnectionErrorRaised
    ELSE IF r.st = "raise" THEN Eff(Return(<<>>), 1, TRUE)
    ELSE Eff(Return(SetToSeqAsc({n \in DOMAIN r.v : r.v[n]})), 1, FALSE)

\* r: the Uids answer, Some(uid) or no entry.
get_uid_for_hotkey_on_subnet(self, r) ==
    IF ~_ensure_connected(self) THEN ConnectionErrorRaised
    ELSE IF r.st = "raise" THEN Eff(Return(None), 1, TRUE)
    ELSE Eff(Return(r.v), 1, FALSE)

get_burn_cost_mutant_no_fallback(self, p, f) ==
    IF ~_ensure_connected(self) THEN ConnectionErrorRaised
    ELSE IF p.st # "raise"
         THEN Eff(Return(IF p.v = None THEN 0 ELSE p.v[1]), 1, FALSE)
    ELSE Eff(Return(0), 1, TRUE)

\* p: the Burn storage answer (Some(v) or no value); f: the answer of the
\* get_subnet_info_v2 fallback, asked only when the storage read raised
\* (a dict carries Some(burn) or no "burn" entry).
get_burn_cost(self, p, f) ==
    IF ~_ensure_connected(self) THEN ConnectionErrorRaised
    ELSE IF p.st # "raise"
         THEN Eff(Return(IF p.v = None THEN 0 ELSE p.v[1]), 1, FALSE)
    ELSE IF f.st = "raise" THEN Eff(Return(0), 2, TRUE)
    ELSE IF f.st = "dict"
         THEN Eff(Return(IF f.v = None THEN 0 ELSE f.v[1]), 2, TRUE)
    ELSE Eff(Return(0), 2, TRUE)

\* h: the get_chain_head answer; b: the get_block_number answer (asked after h).
get_current_block(self, h, b) ==
    IF ~_ensure_connected(self) THEN ConnectionErrorRaised
    ELSE IF h.st = "raise" THEN Propagated(h, 1)
    ELSE IF b.st = "raise" THEN Propagated(b, 2)
    ELSE Eff(Return(b.v[1]), 2, FALSE)

get_balance_tao(self, r) ==
    LET b == get_balance(self, r)
    IN IF b.out.kind = "raise" THEN b
       ELSE [b EXCEPT !.out = Return(rao_to_tao(b.out.val))]

\* r: the ExistentialDeposit constant, Some(v) or nothing.
get_existential_deposit(self, r) ==
    IF ~_ensure_connected(self) THEN ConnectionErrorRaised
    ELSE IF r.st = "raise" THEN Propagated(r, 1)
    ELSE Eff(Return(IF Truthy(r.v) THEN r.v[1] ELSE 500), 1, FALSE)

\* r: a dict carrying Some(stake) or no "stake" entry.
get_stake_for_hotkey_coldkey_netuid(self, r) ==
    IF ~_ensure_connected(self) THEN ConnectionErrorRaised
    ELSE IF r.st = "raise" THEN Eff(Return(0), 1, TRUE)
    ELSE Eff(Return(IF r.st = "dict" /\ r.v # None THEN r.v[1] ELSE 0), 1, FALSE)

get_metagraph(self, r) == DictQuery(self, r)
get_selective_metagraph(self, r) == DictQuery(self, r)
get_neuron_info_for_uid(self, r) == DictQuery(self, r)

\* The (netuid, uid) pairs of hotkey hk: the lookups that gave a UID, in the
\* order of netuids from the i-th on. ans: <<hotkey, netuid>> -> Uids answer.
RECURSIVE RegisteredOn(_, _, _, _, _)
RegisteredOn(self, hk, netuids, i, ans) ==
    IF i > Len(netuids) THEN <<>>
    ELSE LET res == get_uid_for_hotkey_on_subnet(self, ans[<<hk, netuids[i]>>]).out.val
             rest == RegisteredOn(self, hk, netuids, i + 1, ans)
         IN IF res = None THEN rest ELSE <<<<netuids[i], res[1]>>>> \o rest

\* hks: a set of hotkeys (the keys of the result); netuids: a list.
get_registered_subnets_for_hotkeys(self, hks, netuids, ans) ==
    IF ~_ensure_connected(self) THEN ConnectionErrorRaised
    ELSE Eff(Return([hk \in hks |-> RegisteredOn(self, hk, netuids, 1, ans)]),
             Cardinality(hks) * Len(netuids),
             \E hk \in hks, i \in DOMAIN netuids : ans[<<hk, netuids[i]>>].st = "raise")

----------------------------------------------------------------------------
(* Extrinsic submission. *)

\* The course of one submission: the stage at which the library raised
\* ("compose", "sign", "submit", with the exception's text msg), or "receipt":
\* a receipt came back, whose is_success is ok ("true", "false", or "raise"),
\* whose error_message is err ("none", "empty", "text", or "raise") and whose
\* triggered_events are events.
Sub(stage, msg, ok, err, events) ==
    [stage |-> stage, msg |-> msg, ok |-> ok, err |-> err, events |-> events]

ErrText == "Module error"

compose_and_submit(self, fn, keypair, sub) ==
    IF ~_ensure_connected(self) THEN ConnectionErrorRaised
    ELSE IF sub.stage = "compose"
         THEN [Eff(Raise("Exception", sub.msg), 1, TRUE) EXCEPT !.fn = fn]
    ELSE IF sub.stage = "sign"
         THEN [Eff(Raise("Exception", sub.msg), 2, TRUE) EXCEPT
                  !.fn = fn, !.composed = 1, !.signer = keypair]
    ELSE IF sub.stage = "submit"
         THEN [Eff(Raise("Exception", sub.msg), 3, TRUE) EXCEPT
                  !.fn = fn, !.composed = 1, !.signer = keypair,
                  !.signed = 1, !.submits = 1]
    ELSE [Eff(Return(sub), 3, FALSE) EXCEPT
             !.fn = fn, !.composed = 1, !.signer = keypair,
             !.signed = 1, !.submits = 1]

\* str(error) if error else "Unknown error"
ErrorStr(err) == IF err = "text" THEN ErrText ELSE "Unknown error"

InspectReceipt_mutant_no_default(rc) ==
    IF rc.ok = "raise" THEN <<FALSE, Some(rc.msg), "unreadable">>
    ELSE IF rc.ok = "true" THEN <<TRUE, None, "success">>
    ELSE IF rc.err = "raise" THEN <<FALSE, Some(rc.msg), "failure">>
    ELSE <<FALSE, IF rc.err = "text" THEN Some(ErrText) ELSE None, "failure">>

\* What the inspection of a receipt yields: <<verdict, message, receipt state>>.
InspectReceipt(rc) ==
    IF rc.ok = "raise" THEN <<FALSE, Some(rc.msg), "unreadable">>
    ELSE IF rc.ok = "true" THEN <<TRUE, None, "success">>
    ELSE IF rc.err = "raise" THEN <<FALSE, Some(rc.msg), "failure">>
    ELSE <<FALSE, Some(ErrorStr(rc.err)), "failure">>

compose_and_submit_checked_mutant_unguarded(self, fn, keypair, sub) ==
    compose_and_submit(self, fn, keypair, sub)

compose_and_submit_checked_mutant_retry(self, fn, keypair, sub) ==
    LET r == compose_and_submit(self, fn, keypair, sub)
    IN  IF r.out.kind = "raise"
        THEN [r EXCEPT !.out = Return(<<FALSE, Some(r.out.val)>>),
                       !.submits = r.submits + 1]
        ELSE LET i == InspectReceipt(r.out.val)
             IN [r EXCEPT !.out = Return(<<i[1], i[2]>>), !.receipt = i[3]]

compose_and_submit_checked(self, fn, keypair, sub) ==
    LET r == compose_and_submit(self, fn, keypair, sub)
    IN  IF r.out.kind = "raise"
        THEN [r EXCEPT !.out = Return(<<FALSE, Some(r.out.val)>>)]
        ELSE LET i == InspectReceipt(r.out.val)
             IN [r EXCEPT !.out = Return(<<i[1], i[2]>>), !.receipt = i[3]]

----------------------------------------------------------------------------
(* Transfers and staking: parameter shaping around the checked submission,  *)
(* each signed with wallet.coldkey.                                         *)

transfer_tao(self, sub) ==
    compose_and_submit_checked(self, "transfer_allow_death", "coldkey", sub)

transfer_tao_keep_alive(self, sub) ==
    compose_and_submit_checked(self, "transfer_keep_alive", "coldkey", sub)

\* limit: a limit price was given.
add_stake(self, limit, sub) ==
    compose_and_submit_checked(
        self, IF limit THEN "add_stake_limit" ELSE "add_stake", "coldkey", sub)

remove_stake(self, limit, sub) ==
    compose_and_submit_checked(
        self, IF limit THEN "remove_stake_limit" ELSE "remove_stake",
        "coldkey", sub)

unstake_all_mutant_hotkey(self, sub) ==
    compose_and_submit_checked(self, "unstake_all", "hotkey", sub)

unstake_all(self, sub) ==
    compose_and_submit_checked(self, "unstake_all", "coldkey", sub)

unstake_subnet(self, sub) ==
    compose_and_submit_checked(self, "remove_stake_full_limit", "coldkey", sub)

----------------------------------------------------------------------------
(* Burn registration. *)

\* r: the Uids answer. The function reads client.substrate itself: with no
\* handle the attribute access raises, which its except clause turns into None.
check_registration_status(self, r) ==
    IF self.substrate = "none" THEN Eff(Return(None), 0, FALSE)
    ELSE IF r.st = "raise" THEN Eff(Return(None), 1, TRUE)
    ELSE Eff(Return(r.v), 1, FALSE)

\* An event of a receipt. form "dict": a dict with event_id id and attributes
\* holding uid under "uid" and attr1 under 1 (each Some(v) or absent);
\* form "obj": an object with event_id id and attribute uid; form "bad": a
\* NeuronRegistered dict whose attributes are no dict (reading them raises);
\* form "other": neither.
Event(form, id, uid, attr1) == [form |-> form, id |-> id, uid |-> uid, attr1 |-> attr1]

\* The loop over the events from the i-th on, uid being the value so far.
RECURSIVE ParseEvents(_, _, _)
ParseEvents(evs, i, uid) ==
    IF i > Len(evs) THEN uid
    ELSE LET ev == evs[i]
         IN  IF ev.form = "bad" THEN uid
             ELSE IF ev.form = "dict" /\ ev.id = "NeuronRegistered"
                  THEN ParseEvents(evs, i + 1, PyOr(ev.uid, ev.attr1))
             ELSE IF ev.form = "obj" /\ ev.id = "NeuronRegistered"
                  THEN ParseEvents(evs, i + 1, ev.uid)
             ELSE ParseEvents(evs, i + 1, uid)

\* events: [raised, list]: reading triggered_events raised, or the events.
EventUid(events) == IF events.raised THEN None ELSE ParseEvents(events.list, 1, None)

PreCheckPasses_mutant_skipped(balance, burn_rao) == TRUE

\* The balance pre-check lets the call go on.
PreCheckPasses(balance, burn_rao) == ~(balance < burn_rao)

\* check: check_balance; p, f: the answers to get_burn_cost's reads; acct: the
\* System.Account answer; uq: the answer to the Uids lookup; sub: the course of
\* the submission; uq2: the answer to the Uids lookup after the submission.
burn_register(self, check, p, f, acct, uq, sub, uq2) ==
    LET bc == get_burn_cost(self, p, f)
    IN
    IF bc.out.kind = "raise" THEN bc
    ELSE
    LET burn_rao == bc.out.val
        bal == IF check THEN get_balance(self, acct) ELSE Eff(Return(0), 0, FALSE)
        b1 == [Eff(Return(None), bc.rpcs + bal.rpcs, bc.rpcFail \/ bal.rpcFail)
                  EXCEPT !.burnSeen = Some(burn_rao)]
    IN
    IF bal.out.kind = "raise" THEN [b1 EXCEPT !.out = bal.out]
    ELSE
    LET b2 == IF check THEN [b1 EXCEPT !.balSeen = Some(bal.out.val)] ELSE b1
    IN
    IF check /\ ~PreCheckPasses(bal.out.val, burn_rao)
    THEN [b2 EXCEPT !.out = Return(<<FALSE, Some("Insufficient balance"), None>>)]
    ELSE
    LET ex == check_registration_status(self, uq)
        existing_uid == ex.out.val
        b3 == [b2 EXCEPT !.rpcs = @ + ex.rpcs, !.rpcFail = @ \/ ex.rpcFail]
    IN
    IF existing_uid # None
    THEN [b3 EXCEPT !.out = Return(<<TRUE, Some("Already registered"), existing_uid>>)]
    ELSE
    LET cs == compose_and_submit(self, "burned_register", "coldkey", sub)
        b4 == [b3 EXCEPT !.rpcs = @ + cs.rpcs, !.rpcFail = @ \/ cs.rpcFail,
                         !.composed = cs.composed, !.signed = cs.signed,
                         !.submits = cs.submits, !.signer = cs.signer,
                         !.fn = cs.fn]
    IN
    IF cs.out.kind = "raise"
    THEN [b4 EXCEPT !.out = Return(<<FALSE, Some(cs.out.val), None>>)]
    ELSE
    LET rc == cs.out.val
        i == InspectReceipt(rc)
    IN
    IF ~i[1]
    THEN [b4 EXCEPT !.out = Return(<<FALSE, i[2], None>>), !.receipt = i[3]]
    ELSE
    LET evUid == EventUid(rc.events)
        again == check_registration_status(self, uq2)
    IN
    IF evUid # None
    THEN [b4 EXCEPT !.out = Return(<<TRUE, None, evUid>>), !.receipt = i[3],
                    !.eventUid = evUid]
    ELSE [b4 EXCEPT !.out = Return(<<TRUE, None, again.out.val>>),
                    !.receipt = i[3], !.requeried = TRUE,
                    !.rpcs = @ + again.rpcs, !.rpcFail = @ \/ again.rpcFail]

----------------------------------------------------------------------------
(* The connection. *)

\* url: a URL is known; fallbacks: fallback endpoints are; init: "ok", or the
\* text of the exception initialize() raised. Gives <<connected, substrate, Eff>>.
connect(self, url, fallbacks, init) ==
    IF ~url
    THEN <<self.connected, self.substrate,
           Eff(Raise("ValueError", "No RPC URL provided"), 0, FALSE)>>
    ELSE LET kind == IF fallbacks THEN "RetryAsyncSubstrate"
                     ELSE "AsyncSubstrateInterface"
         IN  IF init.st = "raise"
             THEN <<self.connected, "new",
                    [Eff(Raise("Exception", init.msg), 1, TRUE) EXCEPT !.fn = kind]>>
             ELSE <<TRUE, "ready", [Eff(Return(None), 1, FALSE) EXCEPT !.fn = kind]>>

close_mutant_needs_handle(self) ==
    IF self.substrate = "ready"
    THEN <<FALSE, "closed", Eff(Return(None), 1, FALSE)>>
    ELSE <<self.connected, self.substrate,
           Eff(Raise("AttributeError", ""), 0, FALSE)>>

\* The handle's own close() is taken to return on a handle that was never
\* initialised or is closed already, as the library documents it.
close(self) ==
    IF self.substrate # "none"
    THEN <<FALSE, "closed", Eff(Return(None), 1, FALSE)>>
    ELSE <<self.connected, self.substrate, Eff(Return(None), 0, FALSE)>>

----------------------------------------------------------------------------
(* The answers a call may get. *)

Absent == Resp("none", None, "")
Misshapen == Resp("other", None, "")
Ok == Resp("ok", None, "")

AccountAnswers == Raises \cup {Absent, Misshapen} \cup {Resp("dict", o, "") : o \in Opt(Rao)}
BurnAnswers == Raises \cup {Resp("int", o, "") : o \in Opt(Rao)}
SubnetInfoAnswers == Raises \cup {Misshapen} \cup {Resp("dict", o, "") : o \in Opt(Rao)}
UidAnswers == Raises \cup {Resp("int", o, "") : o \in Opt(Uid)}
BlockAnswers == Raises \cup {Resp("int", Some(b), "") : b \in 0..1}
ListAnswers == Raises \cup {Misshapen} \cup {Resp("list", l, "") : l \in {<<>>, <<1>>}}
DictAnswers == Raises \cup {Misshapen} \cup {Resp("dict", <<1>>, "")}
NetworksAddedAnswers ==
    Raises \cup {Resp("map", m, "") : m \in UNION {[D -> BOOLEAN] : D \in SUBSET Netuids}}
InitAnswers == Raises \cup {Ok}

NoEvents == [raised |-> FALSE, list |-> <<>>]
NoSub == Sub("none", "", "na", "na", NoEvents)

Events ==
    {Event("dict", "NeuronRegistered", u, a) : u \in Opt(Uid), a \in Opt(Uid)}
    \cup {Event("obj", "NeuronRegistered", u, None) : u \in Opt(Uid)}
    \cup {Event("dict", "Other", None, None), Event("obj", "Other", None, None),
          Event("bad", "NeuronRegistered", None, None), Event("other", "", None, None)}

SeqUpTo(S, n) == UNION {[1..k -> S] : k \in 0..n}

EventAnswers ==
    {[raised |-> TRUE, list |-> <<>>]}
    \cup {[raised |-> FALSE, list |-> l] : l \in SeqUpTo(Events, MaxEvents)}

\* The courses of a submission; evs: the events a successful receipt may carry.
SubmitCourses(evs) ==
    {Sub(st, m, "na", "na", NoEvents) : st \in {"compose", "sign", "submit"}, m \in ErrMsgs}
    \cup {Sub("receipt", m, "raise", "na", NoEvents) : m \in ErrMsgs}
    \cup {Sub("receipt", "", "true", "na", e) : e \in evs}
    \cup {Sub("receipt", "", "false", err, NoEvents) : err \in {"none", "empty", "text"}}
    \cup {Sub("receipt", m, "false", "raise", NoEvents) : m \in ErrMsgs}

\* With no handle there is nothing to ask.
Asked(S) == IF substrate = "none" THEN {NoAnswer} ELSE S

----------------------------------------------------------------------------
(* State. *)

\* op: the method called; wasConnected: _connected when it was called; check:
\* burn_register's check_balance; reg: the answer the node has for the Uids
\* lookup of burn_register's hotkey; sub: the course of the call's submission;
\* eff: what the call did.
NoCall == [op |-> "none", wasConnected |-> FALSE, check |-> FALSE,
           reg |-> NoAnswer, sub |-> NoSub, eff |-> Eff(Return(None), 0, FALSE),
           ans |-> <<>>]

NoStats == <<>>
NoSnapshot == <<>>
NoCo == <<>>
NoBuild == <<>>

Init ==
    /\ connected = FALSE
    /\ substrate = "none"
    /\ pc = "idle"
    /\ last = NoCall
    /\ statsIn = NoStats
    /\ snapshot = NoSnapshot
    /\ co = NoCo
    /\ build = NoBuild

me == Self(connected, substrate)

\* A call of a method that leaves the connection as it is.
Returned(op, check, reg, sub, eff) ==
    /\ pc' = "returned"
    /\ last' = [op |-> op, wasConnected |-> connected, check |-> check,
                reg |-> reg, sub |-> sub, eff |-> eff, ans |-> <<>>]
    /\ UNCHANGED <<connected, substrate, statsIn, snapshot, co, build>>

\* A call of connect() or close(): r is <<connected, substrate, Eff>>.
Reconnected(op, r) ==
    /\ pc' = "returned"
    /\ connected' = r[1]
    /\ substrate' = r[2]
    /\ last' = [op |-> op, wasConnected |-> connected, check |-> FALSE,
                reg |-> NoAnswer, sub |-> NoSub, eff |-> r[3], ans |-> <<>>]
    /\ UNCHANGED <<statsIn, snapshot, co, build>>

Connect ==
    /\ pc = "idle"
    /\ \E url \in BOOLEAN, fallbacks \in BOOLEAN :
          \E init \in (IF url THEN InitAnswers ELSE {NoAnswer}) :
             Reconnected("connect", connect(me, url, fallbacks, init))

Close ==
    /\ pc = "idle"
    /\ Reconnected("close", close(me))

\* The caller takes the result and is free to call again.
CallerContinues ==
    /\ pc = "returned"
    /\ pc' = "idle"
    /\ last' = NoCall
    /\ UNCHANGED <<connected, substrate, statsIn, snapshot, co, build>>

----------------------------------------------------------------------------
(* The calls of the query facade. *)

Query(op, eff) == Returned(op, FALSE, NoAnswer, NoSub, eff)
\* A query whose answers ans from the node are kept with the call.
QueryOn(op, ans, eff) ==
    /\ pc' = "returned"
    /\ last' = [NoCall EXCEPT !.op = op, !.wasConnected = connected,
                              !.eff = eff, !.ans = ans]
    /\ UNCHANGED <<connected, substrate, statsIn, snapshot, co, build>>

GetBalance ==
    /\ pc = "idle"
    /\ \E r \in Asked(AccountAnswers) : Query("get_balance", get_balance(me, r))

GetBalanceTao ==
    /\ pc = "idle"
    /\ \E r \in Asked(AccountAnswers) : Query("get_balance_tao", get_balance_tao(me, r))

GetExistentialDeposit ==
    /\ pc = "idle"
    /\ \E r \in Asked(BurnAnswers) :
          Query("get_existential_deposit", get_existential_deposit(me, r))

GetStakeInfoForColdkey ==
    /\ pc = "idle"
    /\ \E r \in Asked(ListAnswers) :
          Query("get_stake_info_for_coldkey", get_stake_info_for_coldkey(me, r))

GetStakeForHotkeyColdkeyNetuid ==
    /\ pc = "idle"
    /\ \E r \in Asked(SubnetInfoAnswers) :
          Query("get_stake_for_hotkey_coldkey_netuid",
                get_stake_for_hotkey_coldkey_netuid(me, r))

GetAllSubnetNetuids ==
    /\ pc = "idle"
    /\ \E r \in Asked(NetworksAddedAnswers) :
          Query("get_all_subnet_netuids", get_all_subnet_netuids(me, r))

GetSubnetDynamicInfo ==
    /\ pc = "idle"
    /\ \E r \in Asked(DictAnswers) :
          Query("get_subnet_dynamic_info", get_subnet_dynamic_info(me, r))

GetAllDynamicInfo ==
    /\ pc = "idle"
    /\ \E r \in Asked(ListAnswers) :
          Query("get_all_dynamic_info", get_all_dynamic_info(me, r))

GetSubnetHyperparams ==
    /\ pc = "idle"
    /\ \E r \in Asked(DictAnswers) :
          Query("get_subnet_hyperparams", get_subnet_hyperparams(me, r))

GetBurnCost ==
    /\ pc = "idle"
    /\ \E p \in Asked(BurnAnswers) :
          \E f \in (IF p.st = "raise" THEN SubnetInfoAnswers ELSE {NoAnswer}) :
             QueryOn("get_burn_cost", <<p, f>>, get_burn_cost(me, p, f))

GetMetagraph ==
    /\ pc = "idle"
    /\ \E r \in Asked(DictAnswers) : Query("get_metagraph", get_metagraph(me, r))

GetSelectiveMetagraph ==
    /\ pc = "idle"
    /\ \E r \in Asked(DictAnswers) :
          Query("get_selective_metagraph", get_selective_metagraph(me, r))

GetNeuronsLite ==
    /\ pc = "idle"
    /\ \E r \in Asked(ListAnswers) : Query("get_neurons_lite", get_neurons_lite(me, r))

GetUidForHotkeyOnSubnet ==
    /\ pc = "idle"
    /\ \E r \in Asked(UidAnswers) :
          Query("get_uid_for_hotkey_on_subnet", get_uid_for_hotkey_on_subnet(me, r))

GetRegisteredSubnetsForHotkeys ==
    /\ pc = "idle"
    /\ \E hks \in SUBSET Hotkeys :
          \E ans \in [hks \X Netuids ->
                        Asked({Resp("raise", None, ""), Resp("int", None, ""),
                               Resp("int", Some(0), "")})] :
             Query("get_registered_subnets_for_hotkeys",
                   get_registered_subnets_for_hotkeys(
                       me, hks, SetToSeqAsc(Netuids), ans))

GetNeuronInfoForUid ==
    /\ pc = "idle"
    /\ \E r \in Asked(DictAnswers) :
          Query("get_neuron_info_for_uid", get_neuron_info_for_uid(me, r))

GetCurrentBlock ==
    /\ pc = "idle"
    /\ \E h \in Asked(InitAnswers) :
          \E b \in (IF h.st = "ok" THEN BlockAnswers ELSE {NoAnswer}) :
             Query("get_current_block", get_current_block(me, h, b))

----------------------------------------------------------------------------
(* The calls that submit. *)

Keypairs == {"coldkey", "hotkey"}
PlainCourses == SubmitCourses({NoEvents})
Courses(S) == IF substrate = "none" THEN {NoSub} ELSE S
Submit(op, sub, eff) == Returned(op, FALSE, NoAnswer, sub, eff)

ComposeAndSubmit ==
    /\ pc = "idle"
    /\ \E k \in Keypairs, sub \in Courses(PlainCourses) :
          Submit("compose_and_submit", sub, compose_and_submit(me, "call", k, sub))

ComposeAndSubmitChecked ==
    /\ pc = "idle"
    /\ \E k \in Keypairs, sub \in Courses(PlainCourses) :
          Submit("compose_and_submit_checked", sub,
                compose_and_submit_checked(me, "call", k, sub))

TransferTao ==
    /\ pc = "idle"
    /\ \E sub \in Courses(PlainCourses) : Submit("transfer_tao", sub, transfer_tao(me, sub))

TransferTaoKeepAlive ==
    /\ pc = "idle"
    /\ \E sub \in Courses(PlainCourses) :
          Submit("transfer_tao_keep_alive", sub, transfer_tao_keep_alive(me, sub))

AddStake ==
    /\ pc = "idle"
    /\ \E limit \in BOOLEAN, sub \in Courses(PlainCourses) :
          Submit("add_stake", sub, add_stake(me, limit, sub))

RemoveStake ==
    /\ pc = "idle"
    /\ \E limit \in BOOLEAN, sub \in Courses(PlainCourses) :
          Submit("remove_stake", sub, remove_stake(me, limit, sub))

UnstakeAll ==
    /\ pc = "idle"
    /\ \E sub \in Courses(PlainCourses) : Submit("unstake_all", sub, unstake_all(me, sub))

UnstakeSubnet ==
    /\ pc = "idle"
    /\ \E sub \in Courses(PlainCourses) : Submit("unstake_subnet", sub, unstake_subnet(me, sub))

\* The Uids lookup says the hotkey is registered.
Registered(uq) == uq.st = "int" /\ uq.v # None

BurnRegister ==
    /\ pc = "idle"
    /\ \E check \in BOOLEAN, p \in Asked(BurnAnswers), uq \in Asked(UidAnswers) :
          \E f \in (IF p.st = "raise" THEN SubnetInfoAnswers ELSE {NoAnswer}),
             acct \in (IF check THEN Asked(AccountAnswers) ELSE {NoAnswer}),
             sub \in (IF Registered(uq) THEN {NoSub}
                      ELSE Courses(SubmitCourses(EventAnswers))) :
             \E uq2 \in (IF sub.ok = "true" /\ EventUid(sub.events) = None
                         THEN UidAnswers ELSE {NoAnswer}) :
                Returned("burn_register", check, uq, sub,
                         burn_register(me, check, p, f, acct, uq, sub, uq2))

Next ==
    \/ Connect \/ Close \/ CallerContinues
    \/ GetBalance \/ GetBalanceTao \/ GetExistentialDeposit
    \/ GetStakeInfoForColdkey \/ GetStakeForHotkeyColdkeyNetuid
    \/ GetAllSubnetNetuids \/ GetSubnetDynamicInfo \/ GetAllDynamicInfo
    \/ GetSubnetHyperparams \/ GetBurnCost \/ GetMetagraph
    \/ GetSelectiveMetagraph \/ GetNeuronsLite \/ GetUidForHotkeyOnSubnet
    \/ GetRegisteredSubnetsForHotkeys \/ GetNeuronInfoForUid \/ GetCurrentBlock
    \/ ComposeAndSubmit \/ ComposeAndSubmitChecked
    \/ TransferTao \/ TransferTaoKeepAlive \/ AddStake \/ RemoveStake
    \/ UnstakeAll \/ UnstakeSubnet \/ BurnRegister

Spec == Init /\ [][Next]_vars

----------------------------------------------------------------------------
(* Stats: the price feed, address decoding and get_wallet_stats.            *)

\* Default of info.get("tempo", 360) and tempo_map.get(netuid, 360).
TEMPO_DEFAULT == 360

fetch_tao_price_mutant_zero(session, b, g) ==
    IF ~session THEN Some(FZero)
    ELSE IF b.st = "json" /\ b.v # None /\ b.v[1] > 0 THEN Some(FInt(b.v[1]))
    ELSE IF g.st = "json" /\ g.v # None THEN Some(FInt(g.v[1]))
    ELSE Some(FZero)

\* session: the HTTP session could be made; b: Binance's answer, "raise",
\* "status" (not 200) or "json" with Some(price) or no "price" entry; g:
\* CoinGecko's, with Some(usd) or no entry. Gives Some(price) or None.
fetch_tao_price(session, b, g) ==
    IF ~session THEN None
    ELSE IF b.st = "json" /\ b.v # None /\ b.v[1] > 0 THEN Some(FInt(b.v[1]))
    ELSE IF g.st = "json" /\ g.v # None THEN Some(FInt(g.v[1]))
    ELSE None

\* An address: the SS58 string of public key id, or the string form of a
\* value that is no address (a key still wrapped `wrap` times).
Addr(id) == [enc |-> "ss58", id |-> id, wrap |-> 0]
\* Raw account data: the address string itself, or the len bytes of key id
\* wrapped `wrap` times in a one-element tuple.
RawStr(id) == [kind |-> "str", id |-> id, wrap |-> 0, len |-> 0]
RawBytes(id, wrap, len) == [kind |-> "bytes", id |-> id, wrap |-> wrap, len |-> len]

decode_ss58(raw) ==
    IF raw.kind = "str" THEN Addr(raw.id)
    ELSE LET w == IF raw.wrap >= 1 THEN raw.wrap - 1 ELSE raw.wrap
         IN IF w = 0 /\ raw.len = 32 THEN Addr(raw.id)
            ELSE [enc |-> "str", id |-> raw.id, wrap |-> w]

\* try: results[key] = await task / except Exception: results[key] = None.
\* escaped: the exception leaves get_wallet_stats; val: results[key].
Caught_mutant_unguarded(eff) ==
    IF eff.out.kind = "raise" THEN [escaped |-> TRUE, val |-> None]
    ELSE [escaped |-> FALSE, val |-> Some(eff.out.val)]

Caught(eff) ==
    IF eff.out.kind = "raise" THEN [escaped |-> FALSE, val |-> None]
    ELSE [escaped |-> FALSE, val |-> Some(eff.out.val)]

\* m with key k set to v.
Upd(m, k, v) == [x \in DOMAIN m \cup {k} |-> IF x = k THEN v ELSE m[x]]

\* A dynamic-info record: form "dict" or "other"; netuid, moving_price (bits)
\* and tempo are Some(v) or absent; identity is None (absent, empty or no
\* dict) or Some(its subnet_name, itself Some(name) or absent); subnet_name is
\* Some(name) or absent. A name is a string, "" when empty.
Info(form, netuid, bits, tempo, identity, name) ==
    [form |-> form, netuid |-> netuid, moving_price |-> bits, tempo |-> tempo,
     subnet_identity |-> identity, subnet_name |-> name]

OrDefault(o, d) == IF o = None THEN d ELSE o[1]

\* name_raw of lines 155-159.
NameRaw(info) ==
    LET legacy == OrDefault(info.subnet_name, "")
    IN IF info.subnet_identity # None
       THEN OrDefault(info.subnet_identity[1], legacy)
       ELSE legacy

\* A subnet name: the decoded text, or the default "SN<netuid>".
DefaultName == [default |-> TRUE, text |-> ""]
SubnetName(name_raw) ==
    IF name_raw # "" THEN [default |-> FALSE, text |-> name_raw] ELSE DefaultName

\* price_map, tempo_map and name_map after the infos from the i-th on,
\* as one map netuid -> [price, tempo, name].
RECURSIVE DynamicMaps(_, _, _)
DynamicMaps(dynamic, i, m) ==
    IF i > Len(dynamic) THEN m
    ELSE LET info == dynamic[i]
         IN IF info.form # "dict" THEN DynamicMaps(dynamic, i + 1, m)
            ELSE DynamicMaps(dynamic, i + 1,
                    Upd(m, OrDefault(info.netuid, 0),
                        [price |-> decode_price(info.moving_price),
                         tempo |-> OrDefault(info.tempo, TEMPO_DEFAULT),
                         name |-> SubnetName(NameRaw(info))]))

price_map_get(m, netuid) == IF netuid \in DOMAIN m THEN m[netuid].price ELSE FZero
tempo_map_get(m, netuid) == IF netuid \in DOMAIN m THEN m[netuid].tempo ELSE TEMPO_DEFAULT
name_map_get(m, netuid) == IF netuid \in DOMAIN m THEN m[netuid].name ELSE DefaultName

TaoValue_mutant_priced_root(netuid, alpha_tao, moving_price) ==
    IF FPos(moving_price) THEN FMul(alpha_tao, moving_price)
    ELSE IF netuid = 0 THEN alpha_tao
    ELSE FZero

\* Lines 179-184.
TaoValue_mutant_one_to_one(netuid, alpha_tao, moving_price) ==
    IF netuid = 0 THEN alpha_tao
    ELSE IF FPos(moving_price) THEN FMul(alpha_tao, moving_price)
    ELSE alpha_tao

TaoValue(netuid, alpha_tao, moving_price) ==
    IF netuid = 0 THEN alpha_tao
    ELSE IF FPos(moving_price) THEN FMul(alpha_tao, moving_price)
    ELSE FZero

EmissionTaoPerBlock_mutant_per_tempo(emission, moving_price, tempo) ==
    IF FPos(moving_price) /\ tempo > 0
    THEN FMul(rao_to_tao(emission), moving_price) ELSE FZero

\* Lines 197-200 and 237-239: emission per tempo in alpha RAO to TAO per block.
EmissionTaoPerBlock(emission, moving_price, tempo) ==
    LET emission_alpha_per_tempo == rao_to_tao(emission)
        emission_tao_per_tempo ==
            IF FPos(moving_price) THEN FMul(emission_alpha_per_tempo, moving_price)
            ELSE FZero
    IN IF tempo > 0 THEN FDivInt(emission_tao_per_tempo, tempo) ELSE FZero

\* neuron_cache.get(hotkey, []); cache: a map address -> list of records.
CacheGet(cache, hk) == IF hk \in DOMAIN cache THEN cache[hk] ELSE <<>>

FirstOnNetuid_mutant_miss(nds, i, netuid) == None

\* The first record of nds from the i-th on whose netuid is netuid, or None.
RECURSIVE FirstOnNetuid(_, _, _)
FirstOnNetuid(nds, i, netuid) ==
    IF i > Len(nds) THEN None
    ELSE IF nds[i].netuid = netuid THEN Some(nds[i])
    ELSE FirstOnNetuid(nds, i + 1, netuid)

\* if neuron_cache: / if neuron_cache and hotkey_ss58_list: (None or empty is false)
CacheGiven(neuron_cache) == neuron_cache # None /\ DOMAIN neuron_cache[1] # {}
ListGiven(hotkey_ss58_list) == hotkey_ss58_list # None /\ hotkey_ss58_list[1] # <<>>

StatsAcc == [subnets |-> <<>>, total_staked_tao |-> FZero,
             total_emission_tao_per_block |-> FZero, seen_pairs |-> {}]

\* One turn of the loop over the stake entries (lines 168-225).
StakeEntryStep(acc, entry, maps, neuron_cache) ==
    IF entry.form # "dict" THEN acc
    ELSE
    LET netuid == entry.netuid
        hotkey == decode_ss58(entry.hotkey)
        alpha_stake_rao == entry.stake
        alpha_tao == rao_to_tao(alpha_stake_rao)
        moving_price == price_map_get(maps, netuid)
        tempo == tempo_map_get(maps, netuid)
        tao_value == TaoValue(netuid, alpha_tao, moving_price)
        neuron_data ==
            IF CacheGiven(neuron_cache)
            THEN FirstOnNetuid(CacheGet(neuron_cache[1], hotkey), 1, netuid)
            ELSE None
        emission_tao_per_block ==
            IF neuron_data # None
            THEN EmissionTaoPerBlock(neuron_data[1].emission, moving_price, tempo)
            ELSE FZero
        is_registered == IF neuron_data # None THEN TRUE ELSE entry.is_registered
        row == [netuid |-> netuid,
                subnet_name |-> name_map_get(maps, netuid),
                hotkey |-> hotkey,
                uid |-> IF neuron_data # None THEN Some(neuron_data[1].uid) ELSE None,
                alpha_stake |-> alpha_tao,
                tao_value |-> tao_value,
                emission |-> emission_tao_per_block,
                incentive |-> IF neuron_data # None THEN neuron_data[1].incentive ELSE 0,
                is_registered |-> is_registered,
                moving_price |-> moving_price,
                synthetic |-> FALSE]
    IN [subnets |-> IF alpha_stake_rao > 0 \/ is_registered
                    THEN Append(acc.subnets, row) ELSE acc.subnets,
        total_staked_tao |-> FAdd(acc.total_staked_tao, tao_value),
        total_emission_tao_per_block |->
            FAdd(acc.total_emission_tao_per_block, emission_tao_per_block),
        seen_pairs |-> acc.seen_pairs \cup {<<hotkey, netuid>>}]

RECURSIVE StakeLoop(_, _, _, _, _)
StakeLoop(acc, stakes, i, maps, neuron_cache) ==
    IF i > Len(stakes) THEN acc
    ELSE StakeLoop(StakeEntryStep(acc, stakes[i], maps, neuron_cache),
                   stakes, i + 1, maps, neuron_cache)

ZeroStakeStep_mutant_skipped(acc, hk, nd, maps) == acc

ZeroStakeStep_mutant_unseen(acc, hk, nd, maps) ==
    LET netuid == nd.netuid
        mp == price_map_get(maps, netuid)
        tempo == tempo_map_get(maps, netuid)
        emission_tao_per_block == EmissionTaoPerBlock(nd.emission, mp, tempo)
        row == [netuid |-> netuid,
                subnet_name |-> name_map_get(maps, netuid),
                hotkey |-> hk,
                uid |-> Some(nd.uid),
                alpha_stake |-> FZero,
                tao_value |-> FZero,
                emission |-> emission_tao_per_block,
                incentive |-> nd.incentive,
                is_registered |-> TRUE,
                moving_price |-> mp,
                synthetic |-> TRUE]
    IN [acc EXCEPT !.subnets = Append(@, row),
                   !.total_emission_tao_per_block = FAdd(@, emission_tao_per_block),
                   !.seen_pairs = @ \cup {<<hk, netuid>>}]

\* One turn of the inner loop of lines 230-252: record nd of hotkey hk.
ZeroStakeStep(acc, hk, nd, maps) ==
    IF <<hk, nd.netuid>> \in acc.seen_pairs THEN acc
    ELSE
    LET netuid == nd.netuid
        mp == price_map_get(maps, netuid)
        tempo == tempo_map_get(maps, netuid)
        emission_tao_per_block == EmissionTaoPerBlock(nd.emission, mp, tempo)
        row == [netuid |-> netuid,
                subnet_name |-> name_map_get(maps, netuid),
                hotkey |-> hk,
                uid |-> Some(nd.uid),
                alpha_stake |-> FZero,
                tao_value |-> FZero,
                emission |-> emission_tao_per_block,
                incentive |-> nd.incentive,
                is_registered |-> TRUE,
                moving_price |-> mp,
                synthetic |-> TRUE]
    IN [acc EXCEPT !.subnets = Append(@, row),
                   !.total_emission_tao_per_block = FAdd(@, emission_tao_per_block),
                   !.seen_pairs = @ \cup {<<hk, netuid>>}]

RECURSIVE ZeroStakeInner(_, _, _, _, _)
ZeroStakeInner(acc, hk, nds, j, maps) ==
    IF j > Len(nds) THEN acc
    ELSE ZeroStakeInner(ZeroStakeStep(acc, hk, nds[j], maps), hk, nds, j + 1, maps)

RECURSIVE ZeroStakeLoop(_, _, _, _, _)
ZeroStakeLoop(acc, hks, i, cache, maps) ==
    IF i > Len(hks) THEN acc
    ELSE ZeroStakeLoop(ZeroStakeInner(acc, hks[i], CacheGet(cache, hks[i]), 1, maps),
                       hks, i + 1, cache, maps)

\* subnets.sort(key=netuid): a stable sort.
RECURSIVE InsertByNetuid(_, _)
InsertByNetuid(sorted, row) ==
    IF sorted = <<>> THEN <<row>>
    ELSE IF sorted[Len(sorted)].netuid <= row.netuid THEN Append(sorted, row)
    ELSE Append(InsertByNetuid(SubSeq(sorted, 1, Len(sorted) - 1), row),
                sorted[Len(sorted)])

RECURSIVE SortByNetuid(_, _, _)
SortByNetuid(rows, i, sorted) ==
    IF i > Len(rows) THEN sorted
    ELSE SortByNetuid(rows, i + 1, InsertByNetuid(sorted, rows[i]))

\* Lines 146-271, on the results dict: balance, stakes and dynamic are
\* Some(value) or None; price is Some(float) or None.
WalletSnapshot(results, hotkey_ss58_list, neuron_cache) ==
    LET maps == IF results.dynamic # None /\ results.dynamic[1] # <<>>
                THEN DynamicMaps(results.dynamic[1], 1, <<>>) ELSE <<>>
        stakes == OrDefault(results.stakes, <<>>)
        a1 == StakeLoop(StatsAcc, stakes, 1, maps, neuron_cache)
        a2 == IF CacheGiven(neuron_cache) /\ ListGiven(hotkey_ss58_list)
              THEN ZeroStakeLoop(a1, hotkey_ss58_list[1], 1, neuron_cache[1], maps)
              ELSE a1
        free_balance_tao == rao_to_tao(OrDefault(results.balance, 0))
        total_value_tao == FAdd(free_balance_tao, a2.total_staked_tao)
        tao_price == results.price
    IN [free_balance_tao |-> free_balance_tao,
        total_staked_tao |-> a2.total_staked_tao,
        total_emission_tao_per_block |-> a2.total_emission_tao_per_block,
        total_value_tao |-> total_value_tao,
        total_value_usd |-> IF tao_price # None /\ tao_price[1] # FZero
                            THEN Some(FMul(total_value_tao, tao_price[1])) ELSE None,
        tao_price_usd |-> tao_price,
        subnets |-> SortByNetuid(a2.subnets, 1, <<>>)]

\* acct, st, dy: the node's answers to the balance, stake-list and
\* all-dynamic-info reads; price: what fetch_tao_price gives.
get_wallet_stats(self, acct, st, dy, include_usd, price, hotkey_ss58_list, neuron_cache) ==
    LET balance == Caught(get_balance(self, acct))
        stakes == Caught(get_stake_info_for_coldkey(self, st))
        dynamic == Caught(get_all_dynamic_info(self, dy))
        results == [balance |-> balance.val, stakes |-> stakes.val,
                    dynamic |-> dynamic.val,
                    price |-> IF include_usd THEN price ELSE None]
    IN IF balance.escaped \/ stakes.escaped \/ dynamic.escaped
       THEN Raise("Exception", "")
       ELSE Return(WalletSnapshot(results, hotkey_ss58_list, neuron_cache))

----------------------------------------------------------------------------
(* Calls of get_wallet_stats on what the node and the price feeds hold.     *)

\* At most MaxStakes entries in a stake list.
MaxStakes == 1
\* Moving prices range over 0..MaxBits fixed-point bits.
MaxBits == 1

RpcRaise == Resp("raise", None, "rpc error")

StakeEntry(hotkey, netuid, stake, is_registered) ==
    [form |-> "dict", hotkey |-> hotkey, netuid |-> netuid, stake |-> stake,
     is_registered |-> is_registered]

\* hk1's stake on a subnet, and its registration there with nothing staked.
StakeEntries ==
    {StakeEntry(RawStr("hk1"), n, s, FALSE) : n \in Netuids, s \in Rao}
    \cup {StakeEntry(RawStr("hk1"), n, 0, TRUE) : n \in Netuids}
\* The runtime API lists one entry for each (hotkey, netuid) pair, by netuid.
StakeLists ==
    {l \in SeqUpTo(StakeEntries, MaxStakes) :
        \A i \in 1..(Len(l) - 1) : l[i].netuid < l[i + 1].netuid}

\* The infos of the subnets in D in ascending order, each priced at bits.
DynamicList(D, bits) ==
    [i \in 1..Cardinality(D) |->
        Info("dict", Some(SetToSeqAsc(D)[i]), Some(bits), None, None, None)]
\* The node knows no subnet, or the subnets 0..k.
DynamicLists == {<<>>} \cup {DynamicList(0..k, b) : k \in Netuids, b \in 0..MaxBits}

\* A registration-cache record.
NeuronData(netuid, uid, emission, incentive) ==
    [netuid |-> netuid, uid |-> uid, emission |-> emission, incentive |-> incentive]

\* No cache and no hotkey list, or hk1 in both, registered on the last subnet.
CacheChoices ==
    {[hotkey_ss58_list |-> None, neuron_cache |-> None],
     [hotkey_ss58_list |-> Some(<<Addr("hk1")>>),
      neuron_cache |-> Some([h \in {Addr("hk1")} |->
                               <<NeuronData(MaxNetuid, 0, MaxRao, 0)>>])]}

\* The price feeds: Binance answers; only CoinGecko does; neither does.
PriceFeeds ==
    {[session |-> TRUE, b |-> Resp("json", Some(2), ""), g |-> RpcRaise],
     [session |-> TRUE, b |-> RpcRaise, g |-> Resp("json", Some(3), "")],
     [session |-> TRUE, b |-> RpcRaise, g |-> RpcRaise]}

NoFail == [balance |-> FALSE, stakes |-> FALSE, dynamic |-> FALSE]

\* The arguments of a call, what the node holds and which of its reads fail.
StatsInputs(accts, sts, dys) ==
    {[acct |-> a, st |-> s, dy |-> d, include_usd |-> u, feed |-> f,
      hotkey_ss58_list |-> c.hotkey_ss58_list, neuron_cache |-> c.neuron_cache,
      fail |-> NoFail] :
        a \in accts, s \in sts, d \in dys, u \in BOOLEAN,
        f \in PriceFeeds, c \in CacheChoices}

InitStats ==
    /\ connected \in BOOLEAN
    /\ substrate = IF connected THEN "ready" ELSE "none"
    /\ pc = "idle"
    /\ last = NoCall
    /\ snapshot = NoSnapshot
    /\ co = NoCo
    /\ build = NoBuild
    /\ statsIn \in
          IF connected
          THEN StatsInputs({Resp("dict", Some(b), "") : b \in Rao},
                           {Resp("list", l, "") : l \in StakeLists},
                           {Resp("list", l, "") : l \in DynamicLists})
          ELSE StatsInputs({NoAnswer}, {NoAnswer}, {NoAnswer})
    /\ statsIn.include_usd \/ statsIn.feed.b.st = "json"

\* The answer a read gets: the node's, or an exception when the read fails.
Answer(r, fails) == IF fails THEN RpcRaise ELSE r

WalletStatsOf(self, in) ==
    get_wallet_stats(self, Answer(in.acct, in.fail.balance),
                     Answer(in.st, in.fail.stakes),
                     Answer(in.dy, in.fail.dynamic), in.include_usd,
                     fetch_tao_price(in.feed.session, in.feed.b, in.feed.g),
                     in.hotkey_ss58_list, in.neuron_cache)

GetWalletStats ==
    /\ pc = "idle"
    /\ statsIn # NoStats
    /\ \E fb, fs, fd \in (IF connected THEN BOOLEAN ELSE {FALSE}) :
          LET in == [statsIn EXCEPT !.fail = [balance |-> fb, stakes |-> fs,
                                               dynamic |-> fd]]
          IN /\ statsIn' = in
             /\ snapshot' = WalletStatsOf(me, in)
    /\ pc' = "returned"
    /\ UNCHANGED <<connected, substrate, last, co, build>>

NextStats == GetWalletStats

SpecStats == InitStats /\ [][NextStats]_vars

----------------------------------------------------------------------------
(* Calls of get_wallet_stats on subnets with a tempo and a registration     *)
(* cache over several subnets.                                              *)

\* Tempos are 0 or MaxTempo blocks.
MaxTempo == 2

\* The infos of the subnets 0..k, each priced at bits and with tempo entry t.
DynamicListT(k, bits, t) ==
    [i \in 1..(k + 1) |-> Info("dict", Some(i - 1), Some(bits), t, None, None)]
DynamicListsT ==
    {<<>>} \cup {DynamicListT(k, b, t) :
                    k \in Netuids, b \in 0..MaxBits,
                    t \in {None, Some(0), Some(MaxTempo)}}

\* The cached registrations of hk1: on the subnets of S, in ascending order;
\* hk1 is registered on one subnet or on all of them.
CachedOn(S) ==
    [i \in 1..Cardinality(S) |->
        NeuronData(SetToSeqAsc(S)[i], SetToSeqAsc(S)[i] % (MaxUid + 1), MaxRao, 1)]
\* The known hotkeys may name hk1 twice, and the cache may list one of its
\* registrations twice.
TwiceKnown == Some(<<Addr("hk1"), Addr("hk1")>>)
RowsCacheChoices ==
    {[hotkey_ss58_list |-> None, neuron_cache |-> None],
     [hotkey_ss58_list |-> TwiceKnown,
      neuron_cache |-> Some([h \in {Addr("hk1")} |-> CachedOn(Netuids)])]}
    \cup {[hotkey_ss58_list |-> TwiceKnown,
           neuron_cache |-> Some([h \in {Addr("hk1")} |->
                                    CachedOn({n}) \o CachedOn({n})])] :
             n \in Netuids}
    \cup {[hotkey_ss58_list |-> l,
           neuron_cache |-> Some([h \in {Addr("hk1")} |-> CachedOn(S)])] :
             S \in {{n} : n \in Netuids} \cup {Netuids},
             l \in {None, Some(<<Addr("hk2"), Addr("hk1")>>)}}

InitRows ==
    /\ connected = TRUE
    /\ substrate = "ready"
    /\ pc = "idle"
    /\ last = NoCall
    /\ snapshot = NoSnapshot
    /\ co = NoCo
    /\ build = NoBuild
    /\ statsIn \in
          {[acct |-> Resp("dict", Some(MaxRao), ""),
            st |-> Resp("list", s, ""),
            dy |-> Resp("list", d, ""),
            include_usd |-> FALSE,
            feed |-> [session |-> TRUE, b |-> Resp("json", Some(2), ""), g |-> RpcRaise],
            hotkey_ss58_list |-> c.hotkey_ss58_list,
            neuron_cache |-> c.neuron_cache,
            fail |-> NoFail] :
               s \in StakeLists, d \in DynamicListsT, c \in RowsCacheChoices}

SpecRows == InitRows /\ [][NextStats]_vars

----------------------------------------------------------------------------
(* get_wallet_stats step by step: the coroutines it makes and awaits.       *)
(*                                                                         *)
(* Calling an async function makes a coroutine object and runs none of its  *)
(* body; the body runs, and its request is sent, when the object is         *)
(* awaited. A task is "absent", "created" (a coroutine object in the tasks  *)
(* dict), "running" (awaited, its request sent and not answered) or "done". *)

\* The keys of the tasks dict in insertion order.
TaskKeys == <<"balance", "stakes", "dynamic", "price">>
\* tasks = {...}; if include_usd: tasks["price"] = fetch_tao_price()
TasksMade(include_usd) ==
    [k \in 1..4 |-> IF k = 4 /\ ~include_usd THEN "absent" ELSE "created"]
NoResults == [balance |-> None, stakes |-> None, dynamic |-> None, price |-> None]

\* What a price source may answer: it raises, answers with a status other
\* than 200, or with JSON that holds no price, a zero price or a price.
SourceAnswers(price) ==
    {RpcRaise, Resp("status", None, ""), Resp("json", None, ""),
     Resp("json", Some(0), ""), Resp("json", Some(price), "")}
NoFeed == [session |-> FALSE, b |-> NoAnswer, g |-> NoAnswer]
AllPriceFeeds ==
    {NoFeed} \cup {[session |-> TRUE, b |-> b, g |-> g] :
                      b \in SourceAnswers(2), g \in SourceAnswers(3)}

InitFanout ==
    /\ connected \in BOOLEAN
    /\ substrate = IF connected THEN "ready" ELSE "none"
    /\ pc = "idle"
    /\ last = NoCall
    /\ statsIn = NoStats
    /\ snapshot = NoSnapshot
    /\ co = NoCo
    /\ build = NoBuild

\* Lines 130-136: the tasks dict is built.
StatsCalled ==
    /\ pc = "idle"
    /\ co = NoCo
    /\ \E include_usd \in BOOLEAN, c \in CacheChoices :
          co' = [include_usd |-> include_usd,
                 hotkey_ss58_list |-> c.hotkey_ss58_list,
                 neuron_cache |-> c.neuron_cache,
                 task |-> TasksMade(include_usd),
                 k |-> 1,
                 feed |-> NoFeed,
                 results |-> NoResults]
    /\ pc' = "stats"
    /\ UNCHANGED <<connected, substrate, last, statsIn, snapshot, build>>

\* results[key] = v: the await of the k-th task is over.
Awaited(k, v) ==
    [co EXCEPT !.task[k] = "done", !.k = k + 1,
               !.results = IF k = 1 THEN [@ EXCEPT !.balance = v]
                           ELSE IF k = 2 THEN [@ EXCEPT !.stakes = v]
                           ELSE IF k = 3 THEN [@ EXCEPT !.dynamic = v]
                           ELSE [@ EXCEPT !.price = v]]

\* Line 141, await task: the coroutine starts. A chain read of a client that
\* is not connected raises before it sends anything; otherwise the request
\* goes out.
AwaitTask ==
    /\ pc = "stats"
    /\ co.k <= 4
    /\ co.task[co.k] = "created"
    /\ co' = IF co.k <= 3 /\ ~_ensure_connected(me)
             THEN Awaited(co.k, Caught(ConnectionErrorRaised).val)
             ELSE [co EXCEPT !.task[co.k] = "running"]
    /\ UNCHANGED <<connected, substrate, pc, last, statsIn, snapshot, build>>

\* Lines 141-144: the request of the awaited task is answered, or fails.
TaskAnswered ==
    /\ pc = "stats"
    /\ co.k <= 4
    /\ co.task[co.k] = "running"
    /\ \/ /\ co.k = 1
          /\ \E r \in AccountAnswers :
                co' = Awaited(1, Caught(get_balance(me, r)).val)
       \/ /\ co.k = 2
          /\ \E r \in Raises \cup {Resp("list", l, "") : l \in StakeLists} :
                co' = Awaited(2, Caught(get_stake_info_for_coldkey(me, r)).val)
       \/ /\ co.k = 3
          /\ \E r \in Raises \cup {Resp("list", l, "") : l \in DynamicLists} :
                co' = Awaited(3, Caught(get_all_dynamic_info(me, r)).val)
       \/ /\ co.k = 4
          /\ \E f \in AllPriceFeeds :
                co' = [Awaited(4, fetch_tao_price(f.session, f.b, f.g))
                          EXCEPT !.feed = f]
    /\ UNCHANGED <<connected, substrate, pc, last, statsIn, snapshot, build>>

\* The loop passes over a key the dict does not hold.
NoPriceTask ==
    /\ pc = "stats"
    /\ co.k = 4
    /\ co.task[4] = "absent"
    /\ co' = [co EXCEPT !.k = 5]
    /\ UNCHANGED <<connected, substrate, pc, last, statsIn, snapshot, build>>

\* Lines 146-271: the snapshot is made of the results and returned.
StatsReturned ==
    /\ pc = "stats"
    /\ co.k = 5
    /\ snapshot' = Return(WalletSnapshot(co.results, co.hotkey_ss58_list,
                                         co.neuron_cache))
    /\ pc' = "returned"
    /\ UNCHANGED <<connected, substrate, last, statsIn, co, build>>

NextFanout ==
    \/ StatsCalled \/ AwaitTask \/ TaskAnswered \/ NoPriceTask \/ StatsReturned

SpecFanout == InitFanout /\ [][NextFanout]_vars

----------------------------------------------------------------------------
(* build_global_neuron_cache step by step: the waves of neuron-list fetches.*)
(*                                                                         *)
(* asyncio.gather starts every coroutine of a wave; each sends its request  *)
(* and the wave ends when all are answered. gather hands the answers back   *)
(* in the order of the coroutines whatever order they arrive in, so a wave  *)
(* in progress is the number of its fetches still unanswered.               *)

\* BATCH = 25
BATCH == 25
\* The node has at most MaxSubnets subnets, 0..n-1.
MaxSubnets == 26

\* A record of a neuron list: form "dict" or "other".
Neuron(form, hotkey, uid, emission, incentive) ==
    [form |-> form, hotkey |-> hotkey, uid |-> uid, emission |-> emission,
     incentive |-> incentive]
NoDict == Neuron("other", RawStr(""), 0, 0, 0)

\* What the node holds: subnets 0..n-1, each with hk1 alone as neuron 0,
\* but for at most one subnet, whose fetch gets the answer `answer`.
DefaultNeurons == Resp("list", <<Neuron("dict", RawStr("hk1"), 0, MaxRao, 0)>>, "")
OddNeurons ==
    {RpcRaise, Misshapen, Resp("list", <<>>, ""),
     Resp("list", <<Neuron("dict", RawStr("hk2"), MaxUid, 0, 1)>>, ""),
     Resp("list", <<NoDict, Neuron("dict", RawStr("hk1"), MaxUid, 0, 0),
                    Neuron("dict", RawStr("hk2"), 0, MaxRao, 0)>>, "")}
Nodes ==
    {[n |-> n, odd |-> None, answer |-> DefaultNeurons] : n \in 0..MaxSubnets}
    \cup {[n |-> n, odd |-> Some(v), answer |-> a] :
             n \in 1..MaxSubnets, v \in 0..(MaxSubnets - 1), a \in OddNeurons}
NeuronsOf(node, netuid) ==
    IF node.odd = Some(netuid) THEN node.answer ELSE DefaultNeurons

\* fetch_neurons on the runtime call's answer r: the list, [] for a value
\* that is no list, [] when the call raises.
fetch_neurons(r) ==
    IF r.st = "raise" THEN <<>>
    ELSE IF r.st = "list" THEN r.v ELSE <<>>

Min(a, b) == IF a < b THEN a ELSE b

BatchOf_mutant_all(netuids, i) == SubSeq(netuids, i + 1, Len(netuids))

BatchOf_mutant_overlap(netuids, i) ==
    SubSeq(netuids, IF i = 0 THEN 1 ELSE i, Min(i + BATCH, Len(netuids)))

\* netuids[i:i+BATCH]
BatchOf(netuids, i) == SubSeq(netuids, i + 1, Min(i + BATCH, Len(netuids)))

GatherBatch_mutant_all_or_nothing(node, batch) ==
    IF \E k \in 1..Len(batch) : NeuronsOf(node, batch[k]).st = "raise"
    THEN [k \in 1..Len(batch) |-> <<>>]
    ELSE [k \in 1..Len(batch) |-> fetch_neurons(NeuronsOf(node, batch[k]))]

\* What asyncio.gather returns for a wave: the neurons of each netuid in order.
GatherBatch(node, batch) ==
    [k \in 1..Len(batch) |-> fetch_neurons(NeuronsOf(node, batch[k]))]

\* Lines 95-111 for the records of one subnet from the j-th on.
RECURSIVE AddNeurons(_, _, _, _)
AddNeurons(hotkey_map, netuid, neurons, j) ==
    IF j > Len(neurons) THEN hotkey_map
    ELSE LET n == neurons[j]
         IN IF n.form # "dict" THEN AddNeurons(hotkey_map, netuid, neurons, j + 1)
            ELSE LET hk == decode_ss58(n.hotkey)
                     rec == [netuid |-> netuid, uid |-> n.uid,
                             emission |-> n.emission, incentive |-> n.incentive]
                 IN AddNeurons(Upd(hotkey_map, hk, Append(CacheGet(hotkey_map, hk), rec)),
                               netuid, neurons, j + 1)

InitBuild ==
    /\ connected \in BOOLEAN
    /\ substrate = IF connected THEN "ready" ELSE "none"
    /\ pc = "idle"
    /\ last = NoCall
    /\ statsIn = NoStats
    /\ snapshot = NoSnapshot
    /\ co = NoCo
    /\ build = NoBuild

BuildOf(node, at, netuids, result) ==
    [node |-> node, at |-> at, netuids |-> netuids, i |-> 0, outstanding |-> 0,
     issued |-> 0, fetches |-> <<>>, all_neurons |-> <<>>, mapped |-> 0,
     hotkey_map |-> <<>>,
     result |-> result]

\* Lines 69-71: the netuids are read; none, or a failed read, ends the build.
BuildCalled ==
    /\ pc = "idle"
    /\ build = NoBuild
    /\ \E node \in Nodes, fails \in BOOLEAN :
          /\ node.odd # None => node.odd[1] < node.n
          /\ LET r == IF fails THEN RpcRaise
                      ELSE Resp("map", [k \in 0..(node.n - 1) |-> TRUE], "")
                 e == get_all_subnet_netuids(me, IF connected THEN r ELSE NoAnswer)
             IN IF e.out.kind = "raise"
                THEN /\ ~fails /\ node.n = 0
                     /\ build' = BuildOf(node, "returned", <<>>, e.out)
                     /\ pc' = "returned"
                ELSE IF e.out.val = <<>>
                THEN /\ build' = BuildOf(node, "returned", <<>>, Return(<<>>))
                     /\ pc' = "returned"
                ELSE /\ build' = BuildOf(node, "batch", e.out.val, Return(<<>>))
                     /\ pc' = "build"
    /\ UNCHANGED <<connected, substrate, last, statsIn, snapshot, co>>

\* Lines 87-89: the fetches of the next wave are started.
WaveStarted ==
    /\ pc = "build"
    /\ build.at = "batch"
    /\ LET batch == BatchOf(build.netuids, build.i)
       IN build' = [build EXCEPT !.at = "gather",
                                 !.outstanding = @ + Len(batch),
                                 !.issued = @ + Len(batch),
                                 !.fetches = @ \o batch]
    /\ UNCHANGED <<connected, substrate, pc, last, statsIn, snapshot, co>>

\* One fetch of the wave is answered (or fails).
FetchAnswered ==
    /\ pc = "build"
    /\ build.at = "gather"
    /\ build.outstanding > 0
    /\ build' = [build EXCEPT !.outstanding = @ - 1]
    /\ UNCHANGED <<connected, substrate, pc, last, statsIn, snapshot, co>>

WaveGathered_mutant_eager ==
    /\ pc = "build"
    /\ build.at = "gather"
    /\ LET batch == BatchOf(build.netuids, build.i)
           i == build.i + BATCH
       IN build' = [build EXCEPT
                       !.all_neurons = @ \o GatherBatch(build.node, batch),
                       !.i = i,
                       !.at = IF i < Len(build.netuids) THEN "batch" ELSE "map"]
    /\ UNCHANGED <<connected, substrate, pc, last, statsIn, snapshot, co>>

\* Lines 89-91: gather returns; the neurons of the wave are stored.
WaveGathered ==
    /\ pc = "build"
    /\ build.at = "gather"
    /\ build.outstanding = 0
    /\ LET batch == BatchOf(build.netuids, build.i)
           i == build.i + BATCH
       IN build' = [build EXCEPT
                       !.all_neurons = @ \o GatherBatch(build.node, batch),
                       !.i = i,
                       !.at = IF i < Len(build.netuids) THEN "batch" ELSE "map"]
    /\ UNCHANGED <<connected, substrate, pc, last, statsIn, snapshot, co>>

\* Lines 93-111, one turn of the outer loop: the neurons of the next subnet
\* are entered in the hotkey map; all_neurons[k] holds those of netuids[k].
SubnetMapped ==
    /\ pc = "build"
    /\ build.at = "map"
    /\ build.mapped < Len(build.netuids)
    /\ LET k == build.mapped + 1
       IN build' = [build EXCEPT
                       !.mapped = k,
                       !.hotkey_map = AddNeurons(@, build.netuids[k],
                                                 build.all_neurons[k], 1)]
    /\ UNCHANGED <<connected, substrate, pc, last, statsIn, snapshot, co>>

\* Lines 112-113: the loop is over and the hotkey map is returned.
MapReturned ==
    /\ pc = "build"
    /\ build.at = "map"
    /\ build.mapped = Len(build.netuids)
    /\ build' = [build EXCEPT !.at = "returned",
                              !.result = Return(build.hotkey_map)]
    /\ pc' = "returned"
    /\ UNCHANGED <<connected, substrate, last, statsIn, snapshot, co>>

NextBuild ==
    \/ BuildCalled \/ WaveStarted \/ FetchAnswered \/ WaveGathered
    \/ SubnetMapped \/ MapReturned

SpecBuild == InitBuild /\ [][NextBuild]_vars

\* Once called, the build is run by the event loop whenever it can go on, and
\* every fetch is answered or fails in the end.
SpecBuildFair ==
    /\ SpecBuild
    /\ WF_vars(WaveStarted) /\ WF_vars(FetchAnswered) /\ WF_vars(WaveGathered)
    /\ WF_vars(SubnetMapped) /\ WF_vars(MapReturned)

----------------------------------------------------------------------------
(* The pure helpers, each applied once to an argument.                      *)

\* Keys arrive wrapped in at most MaxWrap one-element tuples.
MaxWrap == 2

PureCall(fn, arg) == [fn |-> fn, arg |-> arg]

\* Raw account data: an address string, or the 31 or 32 bytes of a key.
RawInputs ==
    {RawStr(id) : id \in {"hk1", "hk2"}}
    \cup {RawBytes(id, w, l) : id \in {"hk1", "hk2"}, w \in 0..MaxWrap, l \in {31, 32}}

\* Binary64 arithmetic for the float division and product of rao_to_tao and
\* tao_to_rao. Significands are bit strings, most significant bit first; the
\* long division and the product work on limbs of LimbBits bits.

\* RAO_PER_TAO = 1_000_000_000 = 5^9 * 2^9
RAO_PER_TAO == 1000000000
RAO_PER_TAO_ODD == 1953125
RAO_PER_TAO_SHIFT == 9
\* The significand of a binary64 has 53 bits.
MantBits == 53
\* Amounts of 0..MaxR RAO are converted.
MaxR == 63

LimbBits == RAO_PER_TAO_SHIFT
Limb == RAO_PER_TAO \div RAO_PER_TAO_ODD

RECURSIVE Pow2(_)
Pow2(k) == IF k = 0 THEN 1 ELSE 2 * Pow2(k - 1)

\* The limbs of n, most significant first.
RECURSIVE LimbsOf(_)
LimbsOf(n) == IF n = 0 THEN <<>> ELSE Append(LimbsOf(n \div Limb), n % Limb)

Zeros(k) == [i \in 1..k |-> 0]

\* The bits of a string of limbs.
LimbsToBits(limbs) ==
    [j \in 1..(LimbBits * Len(limbs)) |->
        (limbs[(j - 1) \div LimbBits + 1]
            \div Pow2(LimbBits - 1 - ((j - 1) % LimbBits))) % 2]

\* The value of a bit string.
RECURSIVE IntOf(_)
IntOf(b) ==
    IF b = <<>> THEN 0 ELSE 2 * IntOf(SubSeq(b, 1, Len(b) - 1)) + b[Len(b)]

\* The limbs of a bit string, LimbBits bits each, zeros added in front.
BitsToLimbs(b) ==
    LET n == (Len(b) + LimbBits - 1) \div LimbBits
        padded == Zeros(n * LimbBits - Len(b)) \o b
    IN [k \in 1..n |-> IntOf(SubSeq(padded, LimbBits * (k - 1) + 1, LimbBits * k))]

\* A binary64: the value of the significand m times 2^e.
F64(m, e) == [m |-> m, e |-> e]
F64Zero == F64(Zeros(MantBits), 0)
IsZero(x) == \A j \in 1..MantBits : x.m[j] = 0

\* Long division of the first i limbs of feed by d: the quotient's limbs q
\* and the remainder.
RECURSIVE LongDiv(_, _, _)
LongDiv(feed, d, i) ==
    IF i = 0 THEN [q |-> <<>>, rem |-> 0]
    ELSE LET p == LongDiv(feed, d, i - 1)
             t == Limb * p.rem + feed[i]
         IN [q |-> Append(p.q, t \div d), rem |-> t % d]

\* The product by d of the limbs of b from the i-th on: its low limbs and the
\* carry into the next one.
RECURSIVE MulLow(_, _, _)
MulLow(b, d, i) ==
    IF i > Len(b) THEN [prod |-> <<>>, carry |-> 0]
    ELSE LET p == MulLow(b, d, i + 1)
             t == b[i] * d + p.carry
         IN [prod |-> <<t % Limb>> \o p.prod, carry |-> t \div Limb]
\* The bits of the product of the bit string b by d.
MulSmall(b, d) ==
    LET p == MulLow(BitsToLimbs(b), d, 1)
    IN LimbsToBits(LimbsOf(p.carry) \o p.prod)

\* Round to nearest, ties to even: the binary64 nearest to the value of the
\* bit string bits (not all zero) whose last bit weighs 2^w; sticky: the
\* exact value lies above that of bits.
RoundNearestEven(bits, w, sticky) ==
    LET f == CHOOSE i \in 1..Len(bits) :
                 bits[i] = 1 /\ \A j \in 1..(i - 1) : bits[j] = 0
        n == Len(bits) - f + 1
    IN IF n <= MantBits
       THEN F64(SubSeq(bits, f, Len(bits)) \o Zeros(MantBits - n),
                w - (MantBits - n))
       ELSE LET m == SubSeq(bits, f, f + MantBits - 1)
                guard == bits[f + MantBits]
                rest == sticky \/ \E j \in (f + MantBits + 1)..Len(bits) : bits[j] = 1
                e == w + (n - MantBits)
                up == guard = 1 /\ (rest \/ m[MantBits] = 1)
            IN IF ~up THEN F64(m, e)
               ELSE IF \A j \in 1..MantBits : m[j] = 1
               THEN F64(<<1>> \o Zeros(MantBits - 1), e + 1)
               ELSE LET k == CHOOSE k \in 1..MantBits :
                                 m[k] = 0 /\ \A j \in (k + 1)..MantBits : m[j] = 1
                    IN F64([j \in 1..MantBits |->
                               IF j < k THEN m[j] ELSE IF j = k THEN 1 ELSE 0], e)

\* Quotient limbs past the point: their bits fix the rounding of rao / 5^9,
\* whose first bit set is at most LimbBits * Len(LimbsOf(RAO_PER_TAO_ODD))
\* places past the point.
DivExtra == (MantBits + 1) \div LimbBits + 1 + Len(LimbsOf(RAO_PER_TAO_ODD))

\* rao / RAO_PER_TAO as the float division computes it; rao_to_tao above is
\* the same quotient before rounding.
rao_to_tao_float(rao) ==
    IF rao = 0 THEN F64Zero
    ELSE LET d == LongDiv(LimbsOf(rao) \o Zeros(DivExtra), RAO_PER_TAO_ODD,
                          Len(LimbsOf(rao)) + DivExtra)
             x == RoundNearestEven(LimbsToBits(d.q), -(LimbBits * DivExtra),
                                   d.rem # 0)
         IN F64(x.m, x.e - RAO_PER_TAO_SHIFT)

\* tao * RAO_PER_TAO, a binary64.
F64TimesRaoPerTao(tao) ==
    IF IsZero(tao) THEN F64Zero
    ELSE LET p == MulSmall(tao.m, RAO_PER_TAO_ODD)
             y == RoundNearestEven(p, tao.e, FALSE)
         IN F64(y.m, y.e + RAO_PER_TAO_SHIFT)

\* int(x): the fraction is dropped.
IntTrunc(x) ==
    IF IsZero(x) \/ MantBits + x.e <= 0 THEN 0
    ELSE IF x.e >= 0 THEN IntOf(x.m \o Zeros(x.e))
    ELSE IntOf(SubSeq(x.m, 1, MantBits + x.e))

tao_to_rao(tao) == IntTrunc(F64TimesRaoPerTao(tao))

\* Lines 297-307 of get_subnet_overview: the name of the overview.
overview_name(info) ==
    LET identity == info.subnet_identity
        legacy == OrDefault(info.subnet_name, "")
        name == IF identity # None THEN OrDefault(identity[1], legacy) ELSE legacy
    IN IF name # "" THEN [default |-> FALSE, text |-> name] ELSE DefaultName

\* Dynamic-info records of subnet 1: the identity is absent, or has no name,
\* an empty one or "idn"; the legacy field is absent, empty or "leg".
NameInfos ==
    {Info("dict", Some(1), Some(0), None, identity, name) :
        identity \in {None, Some(None), Some(Some("")), Some(Some("idn"))},
        name \in {None, Some(""), Some("leg")}}

PureInputs ==
    {PureCall("decode_ss58", raw) : raw \in RawInputs}
    \cup {PureCall("round_trip", r) : r \in 0..MaxR}
    \cup {PureCall(fn, info) : fn \in {"name_map", "overview_name"}, info \in NameInfos}

InitPure ==
    /\ connected = FALSE
    /\ substrate = "none"
    /\ pc = "idle"
    /\ last = NoCall
    /\ statsIn \in PureInputs
    /\ snapshot = NoSnapshot
    /\ co = NoCo
    /\ build = NoBuild

PureReturned(fn, val) ==
    /\ pc = "idle"
    /\ statsIn.fn = fn
    /\ snapshot' = [val |-> val]
    /\ pc' = "returned"
    /\ UNCHANGED <<connected, substrate, last, statsIn, co, build>>

DecodeSs58 == PureReturned("decode_ss58", decode_ss58(statsIn.arg))

\* tao_to_rao(rao_to_tao(r)); the result keeps the float in between.
RoundTrip ==
    PureReturned("round_trip", tao_to_rao(rao_to_tao_float(statsIn.arg)))

\* name_map[netuid] of get_wallet_stats for one record.
WalletStatsName == PureReturned("name_map", SubnetName(NameRaw(statsIn.arg)))

OverviewName == PureReturned("overview_name", overview_name(statsIn.arg))

NextPure ==
    \/ DecodeSs58
    \/ RoundTrip
    \/ WalletStatsName
    \/ OverviewName

SpecPure == InitPure /\ [][NextPure]_vars

----------------------------------------------------------------------------
(* Properties of the connection, the facade, the submission protocol and    *)
(* the domain operations, over the last call.                               *)

out == last.eff.out

\* The methods of SubstrateClient that query.
QueryOps ==
    {"get_balance", "get_balance_tao", "get_existential_deposit",
     "get_stake_info_for_coldkey", "get_stake_for_hotkey_coldkey_netuid",
     "get_all_subnet_netuids", "get_subnet_dynamic_info", "get_all_dynamic_info",
     "get_subnet_hyperparams", "get_burn_cost", "get_metagraph",
     "get_selective_metagraph", "get_neurons_lite", "get_uid_for_hotkey_on_subnet",
     "get_registered_subnets_for_hotkeys", "get_neuron_info_for_uid",
     "get_current_block"}

\* compose_and_submit_checked and the domain operations that return its result.
CheckedOps ==
    {"compose_and_submit_checked", "transfer_tao", "transfer_tao_keep_alive",
     "add_stake", "remove_stake", "unstake_all", "unstake_subnet"}

MutatingOps == (CheckedOps \ {"compose_and_submit_checked"}) \cup {"burn_register"}

\* An exception was raised inside the submission of the last call, and its text.
ExceptionInside ==
    \/ ~last.wasConnected
    \/ last.sub.stage \in {"compose", "sign", "submit"}
    \/ last.sub.stage = "receipt" /\ last.sub.ok = "raise"
    \/ last.sub.stage = "receipt" /\ last.sub.ok = "false" /\ last.sub.err = "raise"
ExceptionText == IF ~last.wasConnected THEN NotConnectedMsg ELSE last.sub.msg

\* C1: a burn_register call made while the Uids lookup answers u returns
\* success with UID u and submits no extrinsic, whatever the balance, the burn
\* cost and check_balance are (here: on a connected client, no read failing).
C1_AlreadyRegisteredIsSuccess ==
    (/\ last.op = "burn_register"
     /\ last.wasConnected
     /\ ~last.eff.rpcFail
     /\ Registered(last.reg))
    => /\ out.kind = "return"
       /\ out.val[1] = TRUE
       /\ out.val[3] = last.reg.v
       /\ last.eff.submits = 0

\* C2: compose_and_submit_checked never raises: whenever an exception is
\* raised while it composes, signs, submits or reads the receipt, it returns
\* (false, the exception's text).
C2_CheckedNeverRaises ==
    last.op \in CheckedOps
    => /\ out.kind = "return"
       /\ Len(out.val) = 2
       /\ ExceptionInside => out.val = <<FALSE, Some(ExceptionText)>>

C2_Witness ==
    /\ last.op = "compose_and_submit_checked"
    /\ last.wasConnected
    /\ last.sub.stage = "submit"
    /\ out = Return(<<FALSE, Some("rpc error")>>)

\* C3: compose_and_submit_checked returns (true, None) exactly when the
\* extrinsic was submitted and its receipt reports success, and (false, m) with
\* m not None in every other case.
C3_SuccessIffReceiptSuccess ==
    last.op \in CheckedOps
    => /\ out.val = <<TRUE, None>>
          <=> (/\ last.eff.submits = 1
               /\ last.wasConnected
               /\ last.sub.stage = "receipt"
               /\ last.sub.ok = "true")
       /\ out.val # <<TRUE, None>> => (out.val[1] = FALSE /\ out.val[2] # None)

C3_Witness ==
    /\ last.op = "compose_and_submit_checked"
    /\ last.sub.stage = "receipt"
    /\ last.sub.ok = "false"
    /\ last.sub.err = "empty"
    /\ out = Return(<<FALSE, Some("Unknown error")>>)

\* C4: one call of compose_and_submit_checked, or of an operation built on it,
\* composes, signs and submits at most one extrinsic.
C4_AtMostOneSubmission ==
    last.op \in CheckedOps
    => /\ last.eff.composed <= 1
       /\ last.eff.signed <= 1
       /\ last.eff.submits <= 1

C4_Witness ==
    /\ last.op = "transfer_tao"
    /\ last.sub.stage = "receipt"
    /\ last.sub.ok = "false"
    /\ out.val[1] = FALSE
    /\ last.eff.submits = 1

\* C5 as claimed: every query and submit method of the client, called while
\* the client is not connected, raises ConnectionError with the fixed text and
\* issues no RPC call.
C5_NotConnectedRaises ==
    (/\ last.op \in QueryOps \cup {"compose_and_submit", "compose_and_submit_checked"}
     /\ ~last.wasConnected)
    => /\ out = Raise("ConnectionError", NotConnectedMsg)
       /\ last.eff.rpcs = 0

\* C5 as amended: every query method and compose_and_submit raise
\* ConnectionError with the fixed text; compose_and_submit_checked returns
\* (false, the fixed text); none issues an RPC call.
C5_NotConnectedRejected ==
    ~last.wasConnected
    => /\ last.op \in QueryOps \cup {"compose_and_submit"}
          => out = Raise("ConnectionError", NotConnectedMsg) /\ last.eff.rpcs = 0
       /\ last.op = "compose_and_submit_checked"
          => /\ out = Return(<<FALSE, Some(NotConnectedMsg)>>)
             /\ last.eff.rpcs = 0
             /\ last.eff.submits = 0

C5_Witness ==
    /\ last.op = "compose_and_submit_checked"
    /\ ~last.wasConnected
    /\ substrate = "closed"
    /\ out = Return(<<FALSE, Some(NotConnectedMsg)>>)

\* The ten read methods of C6, and the value each gives when it has nothing.
ReadOps ==
    {"get_balance", "get_burn_cost", "get_subnet_dynamic_info",
     "get_all_dynamic_info", "get_subnet_hyperparams", "get_stake_info_for_coldkey",
     "get_all_subnet_netuids", "get_neurons_lite", "get_uid_for_hotkey_on_subnet",
     "get_current_block"}
IsSafeDefault(op, v) ==
    IF op \in {"get_balance", "get_current_block"} THEN v = 0
    ELSE IF op = "get_burn_cost" THEN v \in Rao
    ELSE v = <<>>

\* C6: every read method of the facade, called on a connected client whose RPC
\* call fails, does not raise and returns its safe default.
C6_ReadsDegrade ==
    (/\ last.op \in ReadOps
     /\ last.wasConnected
     /\ last.eff.rpcFail)
    => /\ out.kind = "return"
       /\ IsSafeDefault(last.op, out.val)

\* C7: every mutating domain operation returns a verdict, with a reason when
\* the verdict is failure, and never raises.
C7_MutatingOpsReturnVerdict ==
    last.op \in MutatingOps
    => /\ out.kind = "return"
       /\ out.val[1] \in BOOLEAN
       /\ out.val[1] = FALSE => out.val[2] # None

\* C8: with the balance pre-check on, when the free balance read is below the
\* burn cost read, burn_register returns the insufficient-balance failure and
\* composes, signs and submits nothing.
C8_InsufficientBalanceFailsFast ==
    (/\ last.op = "burn_register"
     /\ last.check
     /\ last.eff.balSeen # None
     /\ last.eff.burnSeen # None
     /\ last.eff.balSeen[1] < last.eff.burnSeen[1])
    => /\ out = Return(<<FALSE, Some("Insufficient balance"), None>>)
       /\ last.eff.composed = 0
       /\ last.eff.signed = 0
       /\ last.eff.submits = 0

C8_Witness ==
    /\ last.op = "burn_register"
    /\ last.check
    /\ last.eff.balSeen = Some(0)
    /\ last.eff.burnSeen = Some(1)
    /\ ~Registered(last.reg)
    /\ out = Return(<<FALSE, Some("Insufficient balance"), None>>)

----------------------------------------------------------------------------
(* Properties of get_wallet_stats, under SpecStats.                         *)

StatsDone == pc = "returned" /\ statsIn # NoStats
BalanceFailed == ~connected \/ statsIn.fail.balance
StakesFailed == ~connected \/ statsIn.fail.stakes
DynamicFailed == ~connected \/ statsIn.fail.dynamic
PriceOf(in) ==
    IF in.include_usd
    THEN fetch_tao_price(in.feed.session, in.feed.b, in.feed.g) ELSE None
PriceFailed == statsIn.include_usd /\ PriceOf(statsIn) = None

Connected == Self(TRUE, "ready")
\* The snapshot had no read failed.
Unfailed == WalletStatsOf(Connected, [statsIn EXCEPT !.fail = NoFail]).val
\* The snapshot had each failed read answered with its zero value instead.
ZeroFilled ==
    WalletStatsOf(Connected,
        [statsIn EXCEPT
            !.fail = NoFail,
            !.acct = IF BalanceFailed THEN Resp("dict", Some(0), "") ELSE @,
            !.st = IF StakesFailed THEN Resp("list", <<>>, "") ELSE @,
            !.dy = IF DynamicFailed THEN Resp("list", <<>>, "") ELSE @]).val

Rows == snapshot.val.subnets

\* C9: get_wallet_stats returns a snapshot whichever of its balance,
\* stake-list, all-dynamic-info and price queries fail; a failed query's field
\* has its zero value (free balance 0, no stake rows, no prices, no USD price),
\* the snapshot is the one the zero values give, and every field derived only
\* from queries that succeeded is what it is when no query fails.
C9_FailuresDegradeToZero ==
    StatsDone
    => /\ snapshot.kind = "return"
       /\ snapshot.val = ZeroFilled
       /\ BalanceFailed => snapshot.val.free_balance_tao = FZero
       /\ StakesFailed => /\ \A i \in 1..Len(Rows) : Rows[i].synthetic
                          /\ snapshot.val.total_staked_tao = FZero
       /\ DynamicFailed => \A i \in 1..Len(Rows) : Rows[i].moving_price = FZero
       /\ PriceFailed => /\ snapshot.val.tao_price_usd = None
                         /\ snapshot.val.total_value_usd = None
       /\ ~BalanceFailed => snapshot.val.free_balance_tao = Unfailed.free_balance_tao
       /\ (~StakesFailed /\ ~DynamicFailed)
          => /\ Rows = Unfailed.subnets
             /\ snapshot.val.total_staked_tao = Unfailed.total_staked_tao
             /\ snapshot.val.total_emission_tao_per_block
                    = Unfailed.total_emission_tao_per_block
       /\ ~PriceFailed => snapshot.val.tao_price_usd = Unfailed.tao_price_usd

C9_Witness ==
    /\ StatsDone
    /\ connected
    /\ statsIn.fail = [balance |-> TRUE, stakes |-> FALSE, dynamic |-> TRUE]
    /\ statsIn.acct.v = Some(MaxRao)
    /\ PriceFailed
    /\ snapshot.kind = "return"
    /\ Len(Rows) = 1
    /\ Rows[1].netuid = 0
    /\ Rows[1].tao_value = rao_to_tao(MaxRao)
    /\ snapshot.val.free_balance_tao = FZero
    /\ snapshot.val.total_value_tao = rao_to_tao(MaxRao)

\* The all-dynamic-info read of the call failed and the balance read did not.
DynamicFailedOnly == StatsDone /\ connected /\ statsIn.fail.dynamic /\ ~statsIn.fail.balance
QueriedBalance == rao_to_tao(OrDefault(statsIn.acct.v, 0))

\* C10 as stated: when the all-dynamic-info query fails, get_wallet_stats
\* returns a snapshot whose free balance is the queried balance and in which
\* every row, those on netuid 0 included, has TAO valuation 0.0.
C10_AllValuationsZero ==
    DynamicFailedOnly
    => /\ snapshot.kind = "return"
       /\ snapshot.val.free_balance_tao = QueriedBalance
       /\ \A i \in 1..Len(Rows) : Rows[i].tao_value = FZero

\* C10: when the all-dynamic-info query fails, get_wallet_stats returns a
\* snapshot whose free balance is the queried balance, in which every row on a
\* netuid other than 0 has TAO valuation 0.0 and every row on netuid 0 keeps
\* the valuation of its stake at 1:1.
C10_NonRootValuationsZero ==
    DynamicFailedOnly
    => /\ snapshot.kind = "return"
       /\ snapshot.val.free_balance_tao = QueriedBalance
       /\ \A i \in 1..Len(Rows) :
             /\ Rows[i].netuid # 0 => Rows[i].tao_value = FZero
             /\ Rows[i].netuid = 0 => Rows[i].tao_value = Rows[i].alpha_stake

C10_Witness ==
    /\ DynamicFailedOnly
    /\ ~statsIn.fail.stakes
    /\ statsIn.dy.v # <<>>
    /\ statsIn.dy.v[Len(statsIn.dy.v)].moving_price = Some(MaxBits)
    /\ statsIn.acct.v = Some(MaxRao)
    /\ snapshot.kind = "return"
    /\ snapshot.val.free_balance_tao = rao_to_tao(MaxRao)
    /\ Len(Rows) = 1
    /\ Rows[1].netuid = MaxNetuid
    /\ Rows[1].alpha_stake = rao_to_tao(MaxRao)
    /\ Rows[1].tao_value = FZero

----------------------------------------------------------------------------
(* Properties of get_wallet_stats step by step, under SpecFanout.           *)

InStats == co # NoCo
Issued(k) == co.task[k] \in {"running", "done"}

\* C11 as stated: the balance, stake-list, all-dynamic-info and (with
\* include_usd) price queries of get_wallet_stats are launched together: once
\* any one of them has been awaited to completion, every one of them has been
\* issued.
C11_LaunchedTogether ==
    InStats
    => \A k \in 1..4 :
          co.task[k] = "done" => \A j \in 1..4 : co.task[j] # "created"

\* What the code does instead: the queries run one after another; at most one
\* request is in flight, and a task is not started before every task ahead of
\* it in the dict is done.
C11_OneAtATime ==
    InStats
    => /\ Cardinality({k \in 1..4 : co.task[k] = "running"}) <= 1
       /\ \A k \in 1..4 :
             Issued(k) => \A j \in 1..(k - 1) : co.task[j] = "done"

----------------------------------------------------------------------------
(* Properties of build_global_neuron_cache, under SpecBuild.                *)

Building == build # NoBuild
Built == Building /\ build.at = "returned" /\ build.netuids # <<>>

\* C12: while build_global_neuron_cache runs, whatever the number of subnets,
\* at most 25 neuron-list fetches are outstanding at any moment.
C12_AtMost25Outstanding ==
    Building => build.outstanding <= 25

\* More subnets than one wave holds: a full first wave is out, then the rest.
C12_Witness ==
    /\ Building
    /\ Len(build.netuids) > 25
    /\ build.i = 25
    /\ build.at = "gather"
    /\ build.issued = Len(build.netuids)
    /\ build.outstanding = Len(build.netuids) - 25

\* The records the fetch of subnet n got, the node answering with a list.
RecordsOn(n) ==
    LET r == NeuronsOf(build.node, n)
    IN IF r.st = "list" THEN {r.v[j] : j \in {j \in 1..Len(r.v) : r.v[j].form = "dict"}}
       ELSE {}
InMap(n, rec) ==
    LET m == build.result.val
        hk == decode_ss58(rec.hotkey)
    IN /\ hk \in DOMAIN m
       /\ \E j \in 1..Len(m[hk]) :
             m[hk][j] = [netuid |-> n, uid |-> rec.uid, emission |-> rec.emission,
                         incentive |-> rec.incentive]
FetchFailed(n) == build.node.odd = Some(n) /\ build.node.answer.st = "raise"

\* C13: when the neuron-list fetch of one subnet fails, the build returns a
\* map without raising; the failed subnet contributes nothing to it, and every
\* record of every other subnet is in it under its hotkey with that subnet's
\* netuid.
C13_FailedFetchIsolated ==
    (Built /\ \E v \in 0..(MaxSubnets - 1) : FetchFailed(v))
    => /\ build.result.kind = "return"
       /\ \A n \in 0..(build.node.n - 1) :
             IF FetchFailed(n)
             THEN \A hk \in DOMAIN build.result.val :
                     \A j \in 1..Len(build.result.val[hk]) :
                        build.result.val[hk][j].netuid # n
             ELSE \A rec \in RecordsOn(n) : InMap(n, rec)

C13_Witness ==
    /\ Built
    /\ build.node.n = 3
    /\ FetchFailed(1)
    /\ build.result =
          Return([h \in {Addr("hk1")} |->
                    <<[netuid |-> 0, uid |-> 0, emission |-> MaxRao, incentive |-> 0],
                      [netuid |-> 2, uid |-> 0, emission |-> MaxRao, incentive |-> 0]>>])

----------------------------------------------------------------------------
(* Properties of the rows of a snapshot, under SpecRows.                    *)

\* The stake list and the dynamic-info list the call worked on.
UsedStakes == IF StakesFailed THEN <<>> ELSE statsIn.st.v
UsedDynamic == IF DynamicFailed THEN <<>> ELSE statsIn.dy.v
StakeRow(i) == ~Rows[i].synthetic
\* The dynamic-info records of subnet n.
InfosOf(n) == {UsedDynamic[j] : j \in {j \in 1..Len(UsedDynamic) : UsedDynamic[j].netuid = Some(n)}}

\* C14: a stake entry on netuid 0 with stake S is valued at rao_to_tao(S),
\* whether the price map has no entry for netuid 0, a zero one or a non-zero
\* one: every row of a stake on netuid 0 carries the 1:1 value of an entry, and
\* every entry there with a stake has a row with its 1:1 value.
C14_RootValuedOneToOne ==
    StatsDone
    => /\ \A i \in 1..Len(Rows) :
             (StakeRow(i) /\ Rows[i].netuid = 0)
             => /\ Rows[i].tao_value = Rows[i].alpha_stake
                /\ \E j \in 1..Len(UsedStakes) :
                      /\ UsedStakes[j].netuid = 0
                      /\ Rows[i].tao_value = rao_to_tao(UsedStakes[j].stake)
       /\ \A j \in 1..Len(UsedStakes) :
             (UsedStakes[j].netuid = 0 /\ UsedStakes[j].stake > 0)
             => \E i \in 1..Len(Rows) :
                   /\ StakeRow(i)
                   /\ Rows[i].netuid = 0
                   /\ Rows[i].hotkey = decode_ss58(UsedStakes[j].hotkey)
                   /\ Rows[i].tao_value = rao_to_tao(UsedStakes[j].stake)

\* A stake on netuid 0 while the price map prices netuid 0 above zero.
C14_Witness ==
    /\ StatsDone
    /\ ~DynamicFailed
    /\ \E info \in InfosOf(0) : info.moving_price = Some(MaxBits)
    /\ Len(Rows) = 1
    /\ StakeRow(1)
    /\ Rows[1].netuid = 0
    /\ Rows[1].moving_price = decode_price(Some(MaxBits))
    /\ Rows[1].tao_value = rao_to_tao(MaxRao)

\* The cached registration of the stake entry e, or None.
CachedFor(e) ==
    IF CacheGiven(statsIn.neuron_cache)
    THEN LET nds == CacheGet(statsIn.neuron_cache[1], decode_ss58(e.hotkey))
         IN IF \E j \in 1..Len(nds) : nds[j].netuid = e.netuid
            THEN Some(nds[CHOOSE j \in 1..Len(nds) :
                            /\ nds[j].netuid = e.netuid
                            /\ \A h \in 1..(j - 1) : nds[h].netuid # e.netuid])
            ELSE None
    ELSE None

\* C15: a stake entry whose (hotkey, netuid) has a cached registration with
\* emission E, on a subnet with tempo T and moving price p, has a row whose
\* per-block emission is rao_to_tao(E) * p / T when T > 0 and 0 when T = 0.
C15_EmissionPerBlock ==
    StatsDone
    => \A j \in 1..Len(UsedStakes) :
          \A info \in InfosOf(UsedStakes[j].netuid) :
             (CachedFor(UsedStakes[j]) # None /\ info.tempo # None)
             => \E i \in 1..Len(Rows) :
                   /\ StakeRow(i)
                   /\ Rows[i].netuid = UsedStakes[j].netuid
                   /\ Rows[i].hotkey = decode_ss58(UsedStakes[j].hotkey)
                   /\ Rows[i].uid = Some(CachedFor(UsedStakes[j])[1].uid)
                   /\ Rows[i].emission =
                         IF info.tempo[1] > 0
                         THEN FDivInt(FMul(rao_to_tao(CachedFor(UsedStakes[j])[1].emission),
                                           decode_price(info.moving_price)),
                                      info.tempo[1])
                         ELSE FZero

C15_Witness ==
    /\ StatsDone
    /\ Len(UsedStakes) = 1
    /\ CachedFor(UsedStakes[1]) # None
    /\ \E info \in InfosOf(UsedStakes[1].netuid) :
          /\ info.tempo = Some(MaxTempo)
          /\ info.moving_price = Some(MaxBits)
    /\ \E i \in 1..Len(Rows) :
          /\ StakeRow(i)
          /\ Rows[i].emission = Flt(MaxRao * MaxBits, MaxTempo, <<1, 1>>)

\* The subnet has tempo 0: the emission is 0.
C15_WitnessZeroTempo ==
    /\ StatsDone
    /\ Len(UsedStakes) = 1
    /\ CachedFor(UsedStakes[1]) # None
    /\ \E info \in InfosOf(UsedStakes[1].netuid) :
          /\ info.tempo = Some(0)
          /\ info.moving_price = Some(MaxBits)
    /\ \E i \in 1..Len(Rows) : StakeRow(i) /\ Rows[i].emission = FZero

\* The (hotkey, netuid) pairs the stake list holds.
StakedPairs ==
    {<<decode_ss58(UsedStakes[j].hotkey), UsedStakes[j].netuid>> :
        j \in {j \in 1..Len(UsedStakes) : UsedStakes[j].form = "dict"}}
\* The known hotkeys and the registrations the cache holds for hk.
KnownHotkeys ==
    IF statsIn.hotkey_ss58_list = None THEN {}
    ELSE {statsIn.hotkey_ss58_list[1][j] : j \in 1..Len(statsIn.hotkey_ss58_list[1])}
CachedOf(hk) ==
    IF statsIn.neuron_cache = None THEN {}
    ELSE LET nds == CacheGet(statsIn.neuron_cache[1], hk)
         IN {nds[j] : j \in 1..Len(nds)}

\* C16: for every (hotkey, netuid) pair that the registration cache holds for
\* a known hotkey and the stake list does not hold, the snapshot has a row of
\* that pair with alpha_stake 0, tao_value 0, is_registered true and the
\* cached UID.
C16_ZeroStakeRows ==
    StatsDone
    => \A hk \in KnownHotkeys :
          \A nd \in CachedOf(hk) :
             <<hk, nd.netuid>> \notin StakedPairs
             => \E i \in 1..Len(Rows) :
                   /\ Rows[i].hotkey = hk
                   /\ Rows[i].netuid = nd.netuid
                   /\ Rows[i].alpha_stake = FZero
                   /\ Rows[i].tao_value = FZero
                   /\ Rows[i].is_registered
                   /\ Rows[i].uid = Some(nd.uid)

\* hk1 is registered on two subnets and staked on one of them.
C16_Witness ==
    /\ StatsDone
    /\ Cardinality(CachedOf(Addr("hk1"))) = 2
    /\ Addr("hk1") \in KnownHotkeys
    /\ StakedPairs = {<<Addr("hk1"), 0>>}
    /\ Len(Rows) = 2
    /\ StakeRow(1)
    /\ Rows[2].synthetic
    /\ Rows[2].netuid = MaxNetuid
    /\ Rows[2].uid = Some(MaxNetuid % (MaxUid + 1))

----------------------------------------------------------------------------
(* Properties of the USD fields of a snapshot, under SpecFanout.            *)

StatsOver == InStats /\ pc = "returned"
\* The source answered with JSON that holds a price.
GavePrice(r) == r.st = "json" /\ r.v # None
\* No price was asked for, the fetch failed, or no source returned a price.
NoPriceAvailable ==
    \/ ~co.include_usd
    \/ ~co.feed.session
    \/ (~GavePrice(co.feed.b) /\ ~GavePrice(co.feed.g))

\* C17: when no TAO/USD price is available (none was asked for, the fetch
\* failed or returned nothing), total_value_usd and tao_price_usd of the
\* snapshot are None, not 0.
C17_NoPriceIsUnknown ==
    (StatsOver /\ NoPriceAvailable)
    => /\ snapshot.kind = "return"
       /\ snapshot.val.total_value_usd = None
       /\ snapshot.val.tao_price_usd = None

\* A price was asked for, Binance failed and CoinGecko's JSON held none,
\* while the wallet holds a balance.
C17_Witness ==
    /\ StatsOver
    /\ co.include_usd
    /\ co.feed.session
    /\ co.feed.b.st = "raise"
    /\ co.feed.g = Resp("json", None, "")
    /\ snapshot.val.total_value_tao = rao_to_tao(MaxRao)
    /\ snapshot.val.total_value_usd = None
    /\ snapshot.val.tao_price_usd = None

----------------------------------------------------------------------------
(* Properties of get_burn_cost, close() and the signing key, under Spec.    *)

\* The value a read holds: its entry, 0 when it has none.
ValueOr0(r) == IF r.v = None THEN 0 ELSE r.v[1]

\* C18: on a connected client get_burn_cost never raises; it returns the value
\* of the Burn storage read when that read succeeds; when the read fails it
\* asks the subnet-info runtime call and returns its burn field; it returns 0
\* when both fail.
C18_BurnCostFallback ==
    (last.op = "get_burn_cost" /\ last.wasConnected /\ substrate # "none")
    => LET p == last.ans[1]
           f == last.ans[2]
       IN /\ out.kind = "return"
          /\ p.st # "raise" => (out.val = ValueOr0(p) /\ last.eff.rpcs = 1)
          /\ p.st = "raise" => last.eff.rpcs = 2
          /\ (p.st = "raise" /\ f.st = "dict") => out.val = ValueOr0(f)
          /\ (p.st = "raise" /\ f.st # "dict") => out.val = 0

\* The storage read raised and the runtime call answered with a burn field.
C18_Witness ==
    /\ last.op = "get_burn_cost"
    /\ last.wasConnected
    /\ last.ans[1].st = "raise"
    /\ last.ans[2] = Resp("dict", Some(MaxRao), "")
    /\ out = Return(MaxRao)

\* C19: close() raises nothing and leaves the client not connected, on a
\* client that never connected, after a failed connect and on a client that
\* is closed already; closing a closed or never-connected client changes
\* nothing.
C19_CloseIdempotent ==
    [][Close => /\ last'.eff.out = Return(None)
                /\ ~connected'
                /\ ~_ensure_connected(Self(connected', substrate'))
                /\ substrate \in {"none", "closed"}
                   => (connected' = connected /\ substrate' = substrate)]_vars

\* close() has returned on a client that never held a handle.
C19_Witness ==
    /\ last.op = "close"
    /\ substrate = "none"
    /\ ~connected
    /\ out = Return(None)

\* close() has returned on a client that was not connected and held a handle:
\* one closed before, or one whose connect failed.
C19_WitnessAgain ==
    /\ last.op = "close"
    /\ ~last.wasConnected
    /\ substrate = "closed"
    /\ out = Return(None)

\* C20: every extrinsic a domain operation (transfer, keep-alive transfer,
\* add/remove stake with or without limit price, unstake-all,
\* unstake-one-subnet, burn registration) hands to signing or submits is given
\* the wallet's coldkey; none is given the hotkey.
C20_SignedWithColdkey ==
    last.op \in MutatingOps
    => /\ last.eff.signer # "hotkey"
       /\ last.eff.signed >= 1 => last.eff.signer = "coldkey"
       /\ last.eff.submits >= 1 => last.eff.signer = "coldkey"

\* A domain operation has signed and submitted its extrinsic.
C20_Witness ==
    /\ last.op \in MutatingOps
    /\ last.eff.signed = 1
    /\ last.eff.submits = 1
    /\ last.eff.signer = "coldkey"

----------------------------------------------------------------------------
(* Properties of the pure helpers, under SpecPure.                          *)

Applied(fn) == pc = "returned" /\ statsIn.fn = fn
WrappedKey(w) ==
    /\ statsIn.arg.kind = "bytes"
    /\ statsIn.arg.len = 32
    /\ statsIn.arg.wrap = w

\* C21: decode_ss58 of a 32-byte key wrapped once or twice in a one-element
\* container returns the address decode_ss58 returns for the bare key.
C21_WrappedDecodesAlike ==
    (Applied("decode_ss58") /\ (WrappedKey(1) \/ WrappedKey(2)))
    => snapshot.val = decode_ss58(RawBytes(statsIn.arg.id, 0, 32))

\* A key wrapped once does decode to the address of the bare key.
C21_WrappedOnce ==
    (Applied("decode_ss58") /\ WrappedKey(1))
    => snapshot.val = decode_ss58(RawBytes(statsIn.arg.id, 0, 32))

\* C22: for every non-negative integer r, tao_to_rao(rao_to_tao(r)) = r.
C22_RoundTripExact ==
    Applied("round_trip") => snapshot.val = statsIn.arg

\* The round trip gives r back or falls one short of it.
C22_RoundTripWithinOne ==
    Applied("round_trip") => snapshot.val \in {statsIn.arg, statsIn.arg - 1}

\* The identity of the record has a name that is not empty.
IdentityNamed(info) ==
    /\ info.subnet_identity # None
    /\ info.subnet_identity[1] # None
    /\ info.subnet_identity[1][1] # ""
NameDerived == Applied("name_map") \/ Applied("overview_name")

\* C23: the name derived from a dynamic-info record is the identity's name
\* when that is present and not empty, and otherwise (no identity, or its name
\* absent or empty) the legacy subnet_name field.
C23_IdentityNameElseLegacy ==
    NameDerived
    => snapshot.val =
          IF IdentityNamed(statsIn.arg)
          THEN [default |-> FALSE, text |-> statsIn.arg.subnet_identity[1][1]]
          ELSE SubnetName(OrDefault(statsIn.arg.subnet_name, ""))

\* The identity's name is used when it is not empty, and the legacy field when
\* there is no identity or the identity has no name entry.
C23_IdentityNameElseLegacyWhenNoEntry ==
    (/\ NameDerived
     /\ ~(statsIn.arg.subnet_identity # None
          /\ statsIn.arg.subnet_identity[1] = Some("")))
    => snapshot.val =
          IF IdentityNamed(statsIn.arg)
          THEN [default |-> FALSE, text |-> statsIn.arg.subnet_identity[1][1]]
          ELSE SubnetName(OrDefault(statsIn.arg.subnet_name, ""))

----------------------------------------------------------------------------
(* More properties of build_global_neuron_cache, under SpecBuild.           *)

\* The fetches that have completed, with a result or a failure.
Completed == build.issued - build.outstanding

\* C24: no fetch of a later chunk of 25 netuids is issued until every fetch
\* of the chunks before it has completed.
C24_WaveByWave ==
    Building
    => \A k \in 1..(MaxSubnets \div BATCH) :
          build.issued > k * BATCH => Completed >= k * BATCH

\* The second wave is out: its one fetch is issued and not yet answered.
C24_Witness ==
    /\ Building
    /\ build.issued = BATCH + 1
    /\ build.outstanding = 1
    /\ Completed = BATCH

----------------------------------------------------------------------------
(* More properties of burn_register and of the connection, under Spec.      *)

\* The UID the NeuronRegistered events from the i-th on carry, uid being the
\* one carried so far: a dict event carries the uid under "uid" or else the
\* one under 1, an object event its uid attribute; 0 is a UID like any other.
RECURSIVE CarriedUid(_, _, _)
CarriedUid(evs, i, uid) ==
    IF i > Len(evs) THEN uid
    ELSE LET ev == evs[i]
         IN  IF ev.form = "bad" THEN uid
             ELSE IF ev.form = "dict" /\ ev.id = "NeuronRegistered"
                  THEN CarriedUid(evs, i + 1, IF ev.uid # None THEN ev.uid ELSE ev.attr1)
             ELSE IF ev.form = "obj" /\ ev.id = "NeuronRegistered"
                  THEN CarriedUid(evs, i + 1, ev.uid)
             ELSE CarriedUid(evs, i + 1, uid)
Carried ==
    IF last.sub.events.raised THEN None ELSE CarriedUid(last.sub.events.list, 1, None)

\* burn_register has submitted and the receipt reports success.
RegistrationSucceeded ==
    /\ last.op = "burn_register"
    /\ last.eff.submits = 1
    /\ last.sub.stage = "receipt"
    /\ last.sub.ok = "true"

\* C25: when the burned_register extrinsic succeeds, burn_register returns
\* (true, no error, uid); uid is the UID a NeuronRegistered event carries,
\* whatever its value, 0 included, and the Uids lookup is asked again exactly
\* when the events carry none; a failure to read the events leaves the success.
C25_UidFromEventsElseRequery ==
    RegistrationSucceeded
    => /\ out.kind = "return"
       /\ out.val[1] = TRUE
       /\ out.val[2] = None
       /\ last.eff.requeried <=> Carried = None
       /\ Carried # None => out.val[3] = Carried

\* As C25, the UID of the events being what the parsing loop yields: the loop
\* takes a uid of 0 under "uid" for no uid.
C25_UidFromParsedEventsElseRequery ==
    RegistrationSucceeded
    => /\ out.kind = "return"
       /\ out.val[1] = TRUE
       /\ out.val[2] = None
       /\ last.eff.requeried <=> EventUid(last.sub.events) = None
       /\ EventUid(last.sub.events) # None => out.val[3] = EventUid(last.sub.events)

\* C26: after any sequence of connect() and close() calls, failed ones
\* included, the connected flag is true only if the handle held was initialised
\* by the most recent connect() and has not been closed since; a query or a
\* submission on any other handle is rejected with ConnectionError.
C26_ConnectedOnlyWithLiveHandle ==
    /\ connected => substrate = "ready"
    /\ (last.op \in QueryOps \cup {"compose_and_submit"} /\ substrate # "ready")
       => out = ConnectionErrorRaised.out

\* While no connect() fails on a connected client, the flag is true only with
\* an initialised handle: the flag and the handle part only in that failure.
C26_PartOnlyOnFailedReconnect ==
    [][(connected' /\ substrate' # "ready")
       => \/ connected /\ substrate # "ready"
          \/ /\ connected
             /\ last'.op = "connect"
             /\ last'.eff.out.kind = "raise"]_vars

\* The netuids whose fetch was issued, in order, are the first of the list.
FetchedInOrder ==
    /\ Len(build.fetches) <= Len(build.netuids)
    /\ \A k \in 1..Len(build.fetches) : build.fetches[k] = build.netuids[k]

\* C27: build_global_neuron_cache terminates, and it fetches the neuron list
\* of every netuid get_all_subnet_netuids returned exactly once, whatever
\* their number; with none it issues no fetch and returns the empty map.
C27_EverySubnetFetchedOnce ==
    /\ [](Building
          => /\ FetchedInOrder
             /\ (build.at = "returned" /\ build.result.kind = "return")
                => /\ build.fetches = build.netuids
                   /\ Len(build.all_neurons) = Len(build.netuids)
                   /\ build.netuids = <<>> => build.result = Return(<<>>))
    /\ Building ~> (Building /\ build.at = "returned")

\* A build over 26 subnets, one more than a wave, has returned.
C27_Witness ==
    /\ Built
    /\ Len(build.netuids) = BATCH + 1
    /\ build.fetches = build.netuids
    /\ build.result.kind = "return"

----------------------------------------------------------------------------
(* More properties of the rows of a snapshot, under SpecRows.               *)

PairOf(row) == <<row.hotkey, row.netuid>>

\* C28: no (hotkey, netuid) pair with an entry in the stake list has a
\* synthetic zero-stake row, and no pair has more than one synthetic row,
\* though the known hotkeys name a hotkey twice or the cache lists a pair
\* twice.
C28_SyntheticRowsOncePerUnstakedPair ==
    StatsDone
    => \A i \in 1..Len(Rows) :
          Rows[i].synthetic
          => /\ PairOf(Rows[i]) \notin StakedPairs
             /\ \A j \in 1..Len(Rows) :
                   (j # i /\ Rows[j].synthetic) => PairOf(Rows[j]) # PairOf(Rows[i])

\* hk1 is named twice and its registration on subnet 0 is cached twice; hk1
\* has a stake on the last subnet only, and the snapshot has one synthetic row.
C28_Witness ==
    /\ StatsDone
    /\ statsIn.hotkey_ss58_list = TwiceKnown
    /\ Len(CacheGet(statsIn.neuron_cache[1], Addr("hk1"))) = 2
    /\ Cardinality(CachedOf(Addr("hk1"))) = 1
    /\ StakedPairs = {<<Addr("hk1"), MaxNetuid>>}
    /\ Cardinality({i \in 1..Len(Rows) : Rows[i].synthetic}) = 1
    /\ \E i \in 1..Len(Rows) : Rows[i].synthetic /\ Rows[i].netuid = 0

----------------------------------------------------------------------------
(* More properties of get_wallet_stats, under SpecStats.                    *)

\* The coefficient of the unit u in the sum of tao_value over rows.
RECURSIVE TaoValueSum(_, _)
TaoValueSum(rows, u) ==
    IF rows = <<>> THEN <<0, 1>>
    ELSE RAdd(Head(rows).tao_value[u], TaoValueSum(Tail(rows), u))

----------------------------------------------------------------------------
(* The rows of the stake entries, under SpecRows.                           *)

\* The j-th stake entry is registered: the cache holds its (hotkey, netuid)
\* pair, or holds no such pair and the entry's own flag is set.
EntryRegistered(e) ==
    IF CachedFor(e) # None THEN TRUE ELSE e.is_registered
\* The rows of entry e: those of its pair that came from the stake list.
EntryRows(e) ==
    {i \in 1..Len(Rows) :
        StakeRow(i) /\ PairOf(Rows[i]) = <<decode_ss58(e.hotkey), e.netuid>>}

\* C30: a stake-list entry has a row in the snapshot if and only if its stake
\* is greater than 0 or it is registered, by a cache hit on its (hotkey,
\* netuid) pair or, without a cache hit, by its own is_registered flag.
C30_RowIffStakedOrRegistered ==
    StatsDone
    => \A j \in 1..Len(UsedStakes) :
          LET e == UsedStakes[j]
          IN /\ EntryRows(e) # {} <=> (e.stake > 0 \/ EntryRegistered(e))
             /\ \A i \in EntryRows(e) : Rows[i].is_registered = EntryRegistered(e)

\* An entry with no stake and no flag has a row for the cache holds its pair.
C30_Witness ==
    /\ StatsDone
    /\ Len(UsedStakes) = 1
    /\ UsedStakes[1].stake = 0
    /\ ~UsedStakes[1].is_registered
    /\ CachedFor(UsedStakes[1]) # None
    /\ Len(Rows) = 1
    /\ StakeRow(1)
    /\ Rows[1].is_registered

\* An entry with no stake, no flag and no cache hit has no row.
C30_WitnessNoRow ==
    /\ StatsDone
    /\ Len(UsedStakes) = 1
    /\ UsedStakes[1].stake = 0
    /\ ~UsedStakes[1].is_registered
    /\ CachedFor(UsedStakes[1]) = None
    /\ EntryRows(UsedStakes[1]) = {}

====
